---- MODULE Spec2Model ----
(***************************************************************************)
(* A model of Skyline's view / scroll subsystem: the stack of views        *)
(* (Timeline, Thread, AuthorFeed, Notifications), their scroll cursors,    *)
(* height caches and thread relationships, and the parts of App that       *)
(* drive them.                                                             *)
(*                                                                         *)
(* Indices (selected_index, scroll_offset) are 0-based as in the source;   *)
(* the i-th item of a list is posts[i + 1].                                *)
(***************************************************************************)
EXTENDS Integers, Sequences, FiniteSets, Bags, TLC

(***************************************************************************)
(* Bounds of the model.                                                    *)
(***************************************************************************)
\* longest list drawn for the scroll specification
MaxPosts == 3
\* longest list drawn for the pagination specification
MaxPagingPosts == 7
\* posts above the deepest post of the server's reply chain
MaxAncestors == 2
\* direct replies to the deepest post of the server's reply chain
MaxReplies == 2
\* views on the stack
MaxDepth == 2
\* post updates sent and not yet received
MaxUpdates == 1
\* how far past the end of an empty list the selection is followed
MaxOverrun == 2
\* items of the Timeline
MaxTimelineLen == 4

(***************************************************************************)
(* Program constants.                                                      *)
(***************************************************************************)
\* unwrap_or(6): the height read for a post with no cache entry
DefaultPostHeight == 6
\* unwrap_or(3): the height read for a notification with no cache entry
DefaultNotificationHeight == 3
\* AuthorProfile::new: height: 8
ProfileHeight == 8
\* height += 15: fixed height of an image area
ImageAreaHeight == 15
\* Feed::calculate_post_height: height += 10 for an embed
FeedEmbedHeight == 10
\* Feed::calculate_post_height: one line per 50 chars
FeedCharsPerLine == 50
\* needs_more_content: len.saturating_sub(5)
LookAhead == 5
\* u16 arithmetic wraps modulo 2^16 when overflow checks are off
U16 == 65536

\* Option::None for a uri, a text, a cursor
NoUri == 0
NoText == -1

\* The uris the server can return; a height cache maps each to a height,
\* 0 standing for "no entry" (every computed height is at least 3).
Uris == 1..(IF MaxPagingPosts + 1 >= MaxAncestors + MaxReplies + 2
            THEN MaxPagingPosts + 1 ELSE MaxAncestors + MaxReplies + 2)

\* Terminal areas handed to render: heights and widths
ViewportHeights == {12, 30}
ViewportWidths == {24, 54}
\* the terminals an application run is drawn on
Terminals == {[width |-> 24, height |-> 12], [width |-> 54, height |-> 30]}

VARIABLES
    views,            \* ViewStack.views: Vec<View>
    error,            \* App.error: Option<String>
    loading,          \* App.loading
    panicked,         \* the process has aborted on a panic
    overflow_checks,  \* the build: TRUE panics on integer overflow, FALSE wraps
    last,             \* history: the last operation and what it saw
    pc,               \* App::run's position: "start", "draw" or "input"
    post_updates,     \* posts sent on post_update_sender, not yet received
    command_mode,     \* App.command_mode
    composing,        \* App.composing
    post_composer,    \* App.post_composer: "None" or "Some"
    area,             \* the terminal's size, handed to every draw
    hidden,           \* the posts the server gives as NotFound or Blocked
    deleted,          \* the posts deleted from the server by delete_post
    result,           \* what event_loop returned: "none" while it runs
    status_line,      \* App.status_line
    tasks,            \* the follow-up tasks spawned by spawn_get_post_task
    update_manager,   \* App.update_manager: its task and its channel
    image_manager     \* App.image_manager: its caches, their locks, its tasks

vars == <<views, error, loading, panicked, overflow_checks, last, pc,
          post_updates, command_mode, composing, post_composer, area, hidden, deleted,
          result, status_line, tasks, update_manager,
          image_manager>>

\* the server's side and the event loop's result, which most handlers leave
env == <<area, hidden, deleted, result, tasks, update_manager, image_manager>>

\* the spawned tasks, which the handlers of the views never touch
background == <<tasks, update_manager, image_manager>>

\* App::new: nothing has been spawned
NoTasks == [sleeping |-> EmptyBag, sending |-> EmptyBag]

\* UpdateManager::new: ws_task: None, an empty channel.  `task` is where
\* the spawned listener stands.
NoListener == [ws_task |-> "None", task |-> "unspawned", events |-> <<>>]

\* image tasks alive at once
MaxImageTasks == 2

\* ImageManager::new: empty caches, free locks, no task.  A cache is the
\* sequence of its keys from the least to the most recently used; `holder`
\* is the task holding a cache's write lock (0: free); `evicted` is the set
\* of urls that the raw cache has dropped.
NoImages ==
    [raw |-> <<>>, decoded |-> <<>>, sixel |-> <<>>,
     holder |-> [raw |-> 0, decoded |-> 0, sixel |-> 0],
     jobs |-> [id \in 1..MaxImageTasks |-> [url |-> 0, at |-> "idle"]],
     evicted |-> {}]

BackgroundIdle ==
    /\ tasks = NoTasks
    /\ update_manager = NoListener
    /\ image_manager = NoImages

(***************************************************************************)
(* Small helpers.                                                          *)
(***************************************************************************)
Max(a, b) == IF a >= b THEN a ELSE b
Min(a, b) == IF a <= b THEN a ELSE b

\* u16::saturating_sub / usize::saturating_sub
saturating_sub(a, b) == IF a > b THEN a - b ELSE 0

\* ceil(a / b) for b > 0
CeilDiv(a, b) == (a + b - 1) \div b

\* Vec::remove(index), 0-based
RemoveAt(s, i) == [k \in 1..(Len(s) - 1) |-> IF k <= i THEN s[k] ELSE s[k + 1]]

\* iter().position(|p| p.uri == uri): the first index (0-based) or -1
position(posts, uri) ==
    IF \E k \in 1..Len(posts) : posts[k].uri = uri
    THEN (CHOOSE k \in 1..Len(posts) :
            /\ posts[k].uri = uri
            /\ \A j \in 1..(k - 1) : posts[j].uri # uri) - 1
    ELSE -1

(***************************************************************************)
(* Content items.  A post carries its uri, the record fields the core      *)
(* reads (text, reply parent and root), its embed and its like count.      *)
(* A text is an unbroken run of characters, given by its length.           *)
(***************************************************************************)
Body(text, img, quote, qtext, qimg) ==
    [text |-> text, img |-> img, quote |-> quote, qtext |-> qtext, qimg |-> qimg]

PlainBody == Body(30, FALSE, FALSE, NoText, FALSE)
LongBody == Body(100, FALSE, FALSE, NoText, FALSE)
ImageBody == Body(30, TRUE, FALSE, NoText, FALSE)
QuoteBody == Body(30, FALSE, TRUE, 100, FALSE)
QuoteImageBody == Body(NoText, TRUE, TRUE, 30, TRUE)

Bodies == {PlainBody, LongBody, ImageBody, QuoteBody, QuoteImageBody}

PostOf(uri, body, parent, root, likes) ==
    [uri |-> uri, body |-> body, parent |-> parent, root |-> root, likes |-> likes]

\* textwrap::fill(text, width).lines().count() for an unbroken run of
\* `len` characters: long words are broken at the width
wrapped_lines(len, width) == IF len = 0 THEN 0 ELSE CeilDiv(len, width)

\* Post::extract_images_from_post: the images of an Images embed, or of the
\* media of a RecordWithMedia embed; whether it is Some
extract_images_from_post(post) == post.body.img

\* Post::extract_quoted_post_data: Some only for a Record embed (a quote
\* without media), and the post it builds has embed: None, so the images of
\* the quoted post are dropped.  `present` is is_some().
extract_quoted_post_data(post) ==
    [present |-> post.body.quote /\ ~post.body.img,
     post |-> [uri |-> NoUri,
               body |-> Body(post.body.qtext, FALSE, FALSE, NoText, FALSE),
               parent |-> NoUri, root |-> NoUri, likes |-> 0]]

\* PostListBase::calculate_post_height
calculate_post_height(post, available_width) ==
    LET usable_width == saturating_sub(available_width, 4)
        chars_per_line == IF usable_width > 0 THEN usable_width ELSE 1
        text_rows == IF post.body.text = NoText THEN 0
                     ELSE wrapped_lines(post.body.text, chars_per_line)
        quoted == extract_quoted_post_data(post)
        quote_width == saturating_sub(available_width, 6)
        quote_chars == IF quote_width > 0 THEN quote_width ELSE 1
        quote_text_rows == IF quoted.post.body.text = NoText THEN 0
                           ELSE wrapped_lines(quoted.post.body.text, quote_chars)
        quote_rows == IF quoted.present
                      THEN 2 + 1 + quote_text_rows + 1
                           + (IF extract_images_from_post(quoted.post)
                              THEN ImageAreaHeight ELSE 0)
                      ELSE 0
    IN  2 + 1 + 1 + text_rows + quote_rows
        + (IF extract_images_from_post(post) THEN ImageAreaHeight ELSE 0)

\* Feed::calculate_post_height
Feed_calculate_post_height(post) ==
    2 + 1 + 1
    + (IF post.body.text = NoText THEN 0
       ELSE Max(CeilDiv(post.body.text, FeedCharsPerLine), 1))
    + (IF post.body.img \/ post.body.quote THEN FeedEmbedHeight ELSE 0)

(***************************************************************************)
(* Lists.  One record shape for the four variants of View.                 *)
(***************************************************************************)
NoHeights == [u \in Uris |-> 0]
\* Option<ThreadRelationships>: `present` is is_some(); visible_posts is also
\* the key set of indent_levels (update inserts and removes them together),
\* and indent_levels maps every other uri to the unwrap_or(0) of
\* get_indent_level
NoRelationships == [present |-> FALSE, root_uri |-> NoUri, selected_uri |-> NoUri,
                    parent_uri |-> NoUri, visible_posts |-> {},
                    indent_levels |-> [u \in Uris |-> 0]]

NewList(kind) ==
    [kind |-> kind,
     posts |-> <<>>,
     rendered_posts |-> <<>>,
     post_heights |-> NoHeights,
     selected_index |-> 0,
     scroll_offset |-> 0,
     last_known_height |-> 0,
     cursor |-> 0,
     profile |-> 0,
     selected_uri |-> NoUri,
     cached_relationships |-> NoRelationships]

\* post_heights.get(uri).copied().unwrap_or(6)  (3 for a notification)
height_of(v, i) ==
    LET u == v.posts[i + 1].uri
    IN  IF v.post_heights[u] # 0 THEN v.post_heights[u]
        ELSE IF v.kind = "Notifications" THEN DefaultNotificationHeight
        ELSE DefaultPostHeight

Heights(v) == [k \in 1..Len(v.posts) |-> height_of(v, k - 1)]

RECURSIVE SumHeights(_, _, _)
\* the sum of hs[i] for from <= i < to (0-based)
SumHeights(hs, from, to) ==
    IF from >= to THEN 0 ELSE hs[from + 1] + SumHeights(hs, from + 1, to)

(***************************************************************************)
(* Scrolling.  Each scroll operator returns the list after the call and    *)
(* whether the call panicked (the list is then as the panic left it).      *)
(***************************************************************************)
Outcome(v, panic) == [view |-> v, panic |-> panic]

RECURSIVE scroll_until_fits(_, _, _, _, _, _)
\* the inner loop of scroll_down: while y_position >= last_known_height
\* .saturating_sub(height) { if scroll_offset >= len - 1 {break}; y_position
\* -= first_height; scroll_offset += 1 }.  `saturating` tells whether the
\* subtraction is saturating_sub (PostListBase) or a plain u16 `-=` (Feed,
\* AuthorFeed), which panics under overflow checks and wraps without them.
scroll_until_fits(hs, scroll_offset, y_position, limit, saturating, checks) ==
    IF y_position >= limit
    THEN IF scroll_offset >= Len(hs) - 1
         THEN [scroll_offset |-> scroll_offset, panic |-> FALSE]
         ELSE LET first_height == hs[scroll_offset + 1]
              IN  IF y_position >= first_height
                  THEN scroll_until_fits(hs, scroll_offset + 1,
                           y_position - first_height, limit, saturating, checks)
                  ELSE IF saturating
                  THEN scroll_until_fits(hs, scroll_offset + 1, 0, limit,
                                         saturating, checks)
                  ELSE IF checks
                  THEN [scroll_offset |-> scroll_offset, panic |-> TRUE]
                  ELSE scroll_until_fits(hs, scroll_offset + 1,
                           y_position + U16 - first_height, limit, saturating, checks)
    ELSE [scroll_offset |-> scroll_offset, panic |-> FALSE]

\* The body shared by Feed::scroll_down, AuthorFeed::scroll_down and
\* PostListBase::handle_scroll_down; y0 is the initial y_position.
scroll_down_body(v, y0, saturating, checks) ==
    LET hs == Heights(v)
        len == Len(hs)
        next_index == v.selected_index + 1
        lkh == v.last_known_height
    IN  IF len = 0
        THEN \* posts.len() - 1 underflows on usize
             IF checks THEN Outcome(v, TRUE)
             ELSE \* wraps to usize::MAX: no early return, no item to visit
                  Outcome([v EXCEPT !.selected_index = next_index], FALSE)
        ELSE IF v.selected_index >= len - 1 THEN Outcome(v, FALSE)
        ELSE IF v.scroll_offset > next_index
        THEN \* the walk from scroll_offset never meets next_index
             Outcome([v EXCEPT !.selected_index = next_index], FALSE)
        ELSE LET y_position == y0 + SumHeights(hs, v.scroll_offset, next_index)
                 height == hs[next_index + 1]
             IN  IF y_position >= lkh \/ y_position + height > lkh
                 THEN LET r == scroll_until_fits(hs, v.scroll_offset, y_position,
                                   saturating_sub(lkh, height), saturating, checks)
                      IN  IF r.panic
                          THEN Outcome([v EXCEPT !.scroll_offset = r.scroll_offset], TRUE)
                          ELSE Outcome([v EXCEPT !.scroll_offset = r.scroll_offset,
                                                 !.selected_index = next_index], FALSE)
                 ELSE Outcome([v EXCEPT !.selected_index = next_index], FALSE)

\* PostListBase::handle_scroll_down (Thread::scroll_down delegates to it)
handle_scroll_down(v, checks) == scroll_down_body(v, 0, TRUE, checks)

\* Feed::scroll_down
Feed_scroll_down(v, checks) == scroll_down_body(v, 0, FALSE, checks)

\* AuthorFeed::scroll_down: y_position starts at the profile's height when
\* the profile is drawn (scroll_offset == 0)
AuthorFeed_scroll_down(v, checks) ==
    scroll_down_body(v, IF v.scroll_offset = 0 THEN ProfileHeight ELSE 0, FALSE, checks)

\* NotificationView::scroll_down
NotificationView_scroll_down(v) ==
    LET hs == Heights(v)
        next_index == v.selected_index + 1
    IN  IF v.selected_index >= saturating_sub(Len(hs), 1) THEN Outcome(v, FALSE)
        ELSE IF v.scroll_offset > next_index
        THEN Outcome([v EXCEPT !.selected_index = next_index], FALSE)
        ELSE LET y_position == SumHeights(hs, v.scroll_offset, next_index)
                 height == hs[next_index + 1]
             IN  IF y_position + height > v.last_known_height
                 THEN Outcome([v EXCEPT !.scroll_offset = v.scroll_offset + 1,
                                        !.selected_index = next_index], FALSE)
                 ELSE Outcome([v EXCEPT !.selected_index = next_index], FALSE)

\* a scroll_down that increments the selection without the end-of-list test
View_scroll_down_unguarded(v, checks) ==
    Outcome([v EXCEPT !.selected_index = @ + 1], FALSE)

\* View::scroll_down
View_scroll_down(v, checks) ==
    CASE v.kind = "Timeline" -> Feed_scroll_down(v, checks)
      [] v.kind = "Thread" -> handle_scroll_down(v, checks)
      [] v.kind = "AuthorFeed" -> AuthorFeed_scroll_down(v, checks)
      [] v.kind = "Notifications" -> NotificationView_scroll_down(v)

\* a scroll_up whose snap assigns the wrong way round: the selection is set
\* to the scroll offset instead of the scroll offset to the selection
handle_scroll_up_swapped(v) ==
    IF v.selected_index = 0 THEN v
    ELSE [v EXCEPT !.selected_index = IF v.selected_index - 1 < v.scroll_offset
                                      THEN v.scroll_offset ELSE v.selected_index - 1]

\* PostListBase::handle_scroll_up; Feed::scroll_up and
\* NotificationView::scroll_up are the same code
handle_scroll_up(v) ==
    IF v.selected_index = 0 THEN v
    ELSE LET selected_index == v.selected_index - 1
         IN  [v EXCEPT !.selected_index = selected_index,
                       !.scroll_offset = IF selected_index < v.scroll_offset
                                         THEN selected_index ELSE v.scroll_offset]

\* AuthorFeed::scroll_up
AuthorFeed_scroll_up_kept(v) ==
    IF v.selected_index = 1 /\ v.scroll_offset > 0
    THEN [v EXCEPT !.selected_index = 0]
    ELSE handle_scroll_up(v)

AuthorFeed_scroll_up(v) ==
    IF v.selected_index = 1 /\ v.scroll_offset > 0
    THEN [v EXCEPT !.selected_index = 0, !.scroll_offset = 0]
    ELSE handle_scroll_up(v)

\* View::scroll_up
View_scroll_up(v) ==
    IF v.kind = "AuthorFeed" THEN AuthorFeed_scroll_up(v) ELSE handle_scroll_up(v)

\* a look-ahead test with >= in place of >
NotificationView_needs_more_content_ge(v) ==
    v.selected_index >= saturating_sub(Len(v.posts), LookAhead)

\* NotificationView::needs_more_content
NotificationView_needs_more_content(v) ==
    v.selected_index > saturating_sub(Len(v.posts), LookAhead)

\* AuthorFeed::needs_more_content
AuthorFeed_needs_more_content(v) ==
    LET effective_index == IF v.selected_index = 0 THEN 0 ELSE v.selected_index - 1
    IN  effective_index > saturating_sub(Len(v.posts), LookAhead)

\* PostList::get_post / get_selected_post: posts.get(selected_index); a
\* NotificationView has no post to give.  NoPost stands for None.
NoPost == [uri |-> NoUri]
get_selected_post(v) ==
    IF v.kind # "Notifications" /\ v.selected_index < Len(v.posts)
    THEN v.posts[v.selected_index + 1]
    ELSE NoPost

(***************************************************************************)
(* Rendering: Widget::render stores the area's height and fills the        *)
(* height cache for every post that has no entry.                          *)
(***************************************************************************)
\* an ensure_post_heights without the contains_key filter: the height of
\* every post of the list is computed again
ensure_post_heights_all(v, width) ==
    [v EXCEPT !.post_heights =
        [u \in Uris |->
            IF \E k \in 1..Len(v.posts) : v.posts[k].uri = u
            THEN LET post == v.posts[position(v.posts, u) + 1]
                 IN  IF v.kind = "Timeline" THEN Feed_calculate_post_height(post)
                     ELSE calculate_post_height(post, width)
            ELSE v.post_heights[u]]]

\* ensure_post_heights (Feed, Thread, AuthorFeed)
ensure_post_heights(v, width) ==
    [v EXCEPT !.post_heights =
        [u \in Uris |->
            IF v.post_heights[u] # 0 THEN v.post_heights[u]
            ELSE IF \E k \in 1..Len(v.posts) : v.posts[k].uri = u
            THEN LET post == v.posts[position(v.posts, u) + 1]
                 IN  IF v.kind = "Timeline" THEN Feed_calculate_post_height(post)
                     ELSE calculate_post_height(post, width)
            ELSE 0]]

\* impl Widget for &mut Feed / Thread / AuthorFeed / NotificationView
render(v, width, height) ==
    IF v.kind = "Notifications"
    THEN [v EXCEPT !.last_known_height = height]
    ELSE ensure_post_heights([v EXCEPT !.last_known_height = height], width)


(***************************************************************************)
(* Thread: construction from fetched thread data and the relationships     *)
(* derived from the posts' reply records.                                  *)
(***************************************************************************)
\* Thread::get_root_uri_from_thread; NoUri stands for None
get_root_uri_from_thread(v) ==
    LET i == position(v.posts, v.selected_uri)
    IN  IF i < 0 THEN NoUri
        ELSE IF v.posts[i + 1].root # NoUri THEN v.posts[i + 1].root
        ELSE v.posts[i + 1].uri

\* a should_show_reply that shows every reply
should_show_reply_all(v, parent_uri) == TRUE

\* Thread::should_show_reply: whether a reply is shown (the indent level it
\* also returns is ignored by its caller)
should_show_reply(v, parent_uri) ==
    LET is_root_reply == parent_uri = get_root_uri_from_thread(v)
        is_reply_to_selected == parent_uri = v.selected_uri
    IN  is_reply_to_selected \/ is_root_reply

\* ThreadRelationships::update
update(rels, post_uri, parent_uri, should_show, indent_level) ==
    IF should_show
    THEN [rels EXCEPT !.visible_posts = @ \cup {post_uri},
                      !.indent_levels = [@ EXCEPT ![post_uri] = indent_level],
                      !.parent_uri = parent_uri]
    ELSE [rels EXCEPT !.visible_posts = @ \ {post_uri},
                      !.indent_levels = [@ EXCEPT ![post_uri] = 0]]

RECURSIVE process_rest(_, _, _, _)
\* get_relationships, second loop: the posts other than the selected one,
\* from index k (1-based) on
process_rest(v, rels, selected_post_parent_uri, k) ==
    IF k > Len(v.posts) THEN rels
    ELSE LET post == v.posts[k]
             parent_uri == post.parent
             next ==
                IF post.uri = v.selected_uri \/ parent_uri = NoUri THEN rels
                ELSE IF should_show_reply(v, parent_uri)
                THEN IF selected_post_parent_uri # NoUri
                        /\ parent_uri = selected_post_parent_uri
                     THEN update(rels, post.uri, parent_uri, TRUE, 1)
                     ELSE update(rels, post.uri, parent_uri, TRUE,
                                 rels.indent_levels[parent_uri] + 1)
                ELSE update(rels, post.uri, parent_uri, FALSE, 0)
         IN  process_rest(v, next, selected_post_parent_uri, k + 1)

\* Thread::get_relationships when the cache is empty
compute_relationships(v) ==
    LET from_thread == get_root_uri_from_thread(v)
        root_uri == IF from_thread = NoUri THEN v.selected_uri ELSE from_thread
        fresh == [NoRelationships EXCEPT !.present = TRUE, !.root_uri = root_uri,
                                         !.selected_uri = v.selected_uri]
        i == position(v.posts, v.selected_uri)
        selected_post_parent_uri == IF i < 0 THEN NoUri ELSE v.posts[i + 1].parent
        first == IF i < 0 THEN fresh
                 ELSE IF selected_post_parent_uri # NoUri
                 THEN update(fresh, v.selected_uri, selected_post_parent_uri, TRUE, 0)
                 ELSE update(fresh, v.selected_uri, root_uri, TRUE, 0)
    IN  process_rest(v, first, selected_post_parent_uri, 1)

\* Thread::get_relationships: computed only when the cache is None
get_relationships(v) ==
    IF v.cached_relationships.present THEN v
    ELSE [v EXCEPT !.cached_relationships = compute_relationships(v)]

\* an add_post that makes no rendering component for the post
Thread_add_post_unrendered(v, post) ==
    LET posts == Append(v.posts, post)
    IN  [v EXCEPT !.posts = posts,
                  !.selected_index = IF post.uri = v.selected_uri
                                     THEN Len(posts) - 1 ELSE @,
                  !.cached_relationships = NoRelationships]

\* Thread::add_post
Thread_add_post(v, post) ==
    LET posts == Append(v.posts, post)
    IN  [v EXCEPT !.rendered_posts = Append(@, post),
                  !.posts = posts,
                  !.selected_index = IF post.uri = v.selected_uri
                                     THEN Len(posts) - 1 ELSE @,
                  !.cached_relationships = NoRelationships]

RECURSIVE add_posts(_, _, _)
add_posts(v, ps, k) ==
    IF k > Len(ps) THEN v ELSE add_posts(Thread_add_post(v, ps[k]), ps, k + 1)

\* a process_thread_data that adds the anchor before its ancestors
process_thread_data_anchor_first(v, data) ==
    IF ~data.found THEN v
    ELSE add_posts([v EXCEPT !.selected_uri = data.anchor.uri],
                   <<data.anchor>> \o data.ancestors \o data.replies, 1)

\* Thread::process_thread_data: the ancestors root first
\* (process_parent_thread), the anchor, the replies in the order of the
\* walk of process_reply_thread
process_thread_data(v, data) ==
    IF ~data.found THEN v
    ELSE add_posts([v EXCEPT !.selected_uri = data.anchor.uri],
                   data.ancestors \o <<data.anchor>> \o data.replies, 1)

\* Thread::new
Thread_new(data) == get_relationships(process_thread_data(NewList("Thread"), data))

\* AuthorFeed::new / process_feed_data / add_post
AuthorFeed_new(profile, feed_data) ==
    [NewList("AuthorFeed") EXCEPT !.profile = profile,
                                  !.posts = feed_data, !.rendered_posts = feed_data]


(***************************************************************************)
(* The stack of views and the operations on its top.                       *)
(***************************************************************************)
\* ViewStack::current_view
current_view == views[Len(views)]

\* the parts of App that a call on a View cannot reach
app_rest == <<pc, post_updates, command_mode, composing, post_composer, env, status_line>>

SetCurrent(v) == [views EXCEPT ![Len(views)] = v]

\* a status line holding a fixed text
StatusText(text) == [text |-> text, selected |-> 0, total |-> 0]

\* App::update_status: the status line for the given loading flag, error
\* and current view; the help text carries "selected / total"
update_status(is_loading, err, v) ==
    IF is_loading THEN StatusText("Loading...")
    ELSE IF err # "none" THEN StatusText(err)
    ELSE [text |-> "help", selected |-> v.selected_index + 1, total |-> Len(v.posts)]

\* handle_input ends with update_status(), unless the handler panicked
StatusAfterInput ==
    status_line' = IF panicked' THEN status_line
                   ELSE update_status(loading', error', views'[Len(views')])

\* What an operation saw when it started, and the operation before it
History(op, arg) ==
    [op |-> op, arg |-> arg,
     sel |-> current_view.selected_index,
     off |-> current_view.scroll_offset,
     len |-> Len(current_view.posts),
     depth |-> Len(views),
     prev_op |-> last.op, prev_sel |-> last.sel, prev_off |-> last.off]

NoHistory ==
    [op |-> "new", arg |-> 0, sel |-> 0, off |-> 0, len |-> 0, depth |-> 1,
     prev_op |-> "new", prev_sel |-> 0, prev_off |-> 0]

\* View::scroll_down on the current view
ScrollDown ==
    /\ ~panicked
    /\ LET r == View_scroll_down(current_view, overflow_checks)
       IN  /\ views' = SetCurrent(r.view)
           /\ panicked' = r.panic
    /\ last' = History("scroll_down", 0)
    /\ UNCHANGED <<error, loading, overflow_checks, app_rest>>

\* View::scroll_up on the current view
ScrollUp ==
    /\ ~panicked
    /\ views' = SetCurrent(View_scroll_up(current_view))
    /\ last' = History("scroll_up", 0)
    /\ UNCHANGED <<error, loading, panicked, overflow_checks, app_rest>>

\* terminal.draw: the current view is rendered into an area
Render ==
    /\ ~panicked
    /\ \E w \in ViewportWidths, h \in ViewportHeights :
          views' = SetCurrent(render(current_view, w, h))
    /\ last' = History("render", 0)
    /\ UNCHANGED <<error, loading, panicked, overflow_checks, app_rest>>

(***************************************************************************)
(* The scroll specification: a list of each variant, just constructed      *)
(* from fetched items, is on top of the stack; it is rendered and          *)
(* scrolled.                                                               *)
(***************************************************************************)
ScrollBodies == {PlainBody, ImageBody}

\* the posts of a fetched page: uris 1..n, any bodies
Pages(n) ==
    { [k \in 1..n |-> PostOf(k, b[k], NoUri, NoUri, 0)] : b \in [1..n -> ScrollBodies] }

\* thread data whose posts are ps: the first a are the ancestor chain, the
\* next is the anchor, the rest reply to the anchor
ChainData(ps, a) ==
    LET linked == [k \in 1..Len(ps) |->
                      [ps[k] EXCEPT !.parent = IF k = 1 THEN NoUri
                                               ELSE IF k <= a + 1 THEN ps[k - 1].uri
                                               ELSE ps[a + 1].uri,
                                    !.root = IF k = 1 THEN NoUri ELSE ps[1].uri]]
    IN  [found |-> TRUE,
         ancestors |-> SubSeq(linked, 1, a),
         anchor |-> linked[a + 1],
         replies |-> SubSeq(linked, a + 2, Len(ps))]

\* Feed after load_initial_posts returned a page
Feed_loaded(ps) == [NewList("Timeline") EXCEPT !.posts = ps, !.rendered_posts = ps]

\* NotificationView after load_notifications returned a page
Notifications_loaded(ps) == [NewList("Notifications") EXCEPT !.posts = ps]

ScrollLists ==
    UNION { { Feed_loaded(ps) : ps \in Pages(n) }
            \cup { AuthorFeed_new(1, ps) : ps \in Pages(n) }
            \cup { Notifications_loaded([k \in 1..n |-> PostOf(k, PlainBody, NoUri, NoUri, 0)]) }
            \cup { Thread_new(ChainData(ps, a)) : ps \in Pages(n), a \in 0..(n - 1) }
          : n \in 1..MaxPosts }

InitScroll ==
    /\ \E top \in ScrollLists :
          views = IF top.kind = "Timeline" THEN <<top>>
                  ELSE <<Feed_loaded(<<PostOf(1, PlainBody, NoUri, NoUri, 0)>>), top>>
    /\ error = "none"
    /\ loading = FALSE
    /\ panicked = FALSE
    /\ overflow_checks \in BOOLEAN
    /\ last = NoHistory
    /\ pc = "input"
    /\ post_updates = <<>>
    /\ command_mode = FALSE
    /\ composing = FALSE
    /\ post_composer = "None"
    /\ area = [width |-> 0, height |-> 0]
    /\ hidden = {}
    /\ deleted = {}
    /\ result = "none"
    /\ BackgroundIdle
    /\ status_line = StatusText("")

NextScroll == ScrollDown \/ ScrollUp \/ Render

SpecScroll == InitScroll /\ [][NextScroll]_vars


(***************************************************************************)
(* The pagination specification: a NotificationView or an AuthorFeed long  *)
(* enough to have a 5th and a 6th item from the end is scrolled.           *)
(***************************************************************************)
PlainPage(n) == [k \in 1..n |-> PostOf(k, PlainBody, NoUri, NoUri, 0)]

InitPaging ==
    /\ \E n \in 1..MaxPagingPosts :
          \E top \in {Notifications_loaded(PlainPage(n)), AuthorFeed_new(1, PlainPage(n))} :
             views = <<Feed_loaded(PlainPage(1)), top>>
    /\ error = "none"
    /\ loading = FALSE
    /\ panicked = FALSE
    /\ overflow_checks \in BOOLEAN
    /\ last = NoHistory
    /\ pc = "input"
    /\ post_updates = <<>>
    /\ command_mode = FALSE
    /\ composing = FALSE
    /\ post_composer = "None"
    /\ area = [width |-> 0, height |-> 0]
    /\ hidden = {}
    /\ deleted = {}
    /\ result = "none"
    /\ BackgroundIdle
    /\ status_line = StatusText("")

NextPaging == ScrollDown \/ ScrollUp \/ Render

SpecPaging == InitPaging /\ [][NextPaging]_vars

\* PostList::needs_more_content of the current view, for the variants whose
\* implementation the source holds
needs_more_content ==
    IF current_view.kind = "Notifications"
    THEN NotificationView_needs_more_content(current_view)
    ELSE AuthorFeed_needs_more_content(current_view)

(***************************************************************************)
(* Properties of the scroll cursor.                                        *)
(***************************************************************************)
selected_index == current_view.selected_index
scroll_offset == current_view.scroll_offset
item_count == Len(current_view.posts)

\* every item is cached and is strictly shorter than the viewport
RenderedAndFits(v) ==
    /\ v.last_known_height > 0
    /\ \A k \in 1..Len(v.posts) :
          /\ v.post_heights[v.posts[k].uri] # 0
          /\ v.post_heights[v.posts[k].uri] < v.last_known_height

\* C1: in every state reachable by scroll_down and scroll_up calls, for any
\* item heights and any viewport height, scroll_offset <= selected_index.
\* Stated for one scroll_down as the event loop issues it: the list has been
\* rendered (the viewport height is not the initial 0), every item is
\* shorter than the viewport, and scroll_offset <= selected_index held when
\* the call started.
C1_OffsetNeverPassesSelection ==
    (/\ ~panicked
     /\ RenderedAndFits(current_view)
     /\ last.op = "scroll_down" /\ last.off <= last.sel)
    => scroll_offset <= selected_index

\* C2: for a non-empty list of n items selected_index <= n - 1 after any
\* sequence of scroll calls, and a scroll_down called at the last index
\* changes neither selected_index nor scroll_offset.
C2_SelectionStaysInList ==
    /\ item_count > 0 => selected_index <= item_count - 1
    /\ (last.op = "scroll_down" /\ last.sel = last.len - 1)
          => (selected_index = last.sel /\ scroll_offset = last.off /\ ~panicked)

\* a scroll_down was called with the last of at least two items selected,
\* after the selection had been moved there
C2_Witness ==
    /\ last.op = "scroll_down" /\ last.prev_op = "scroll_down"
    /\ last.len >= 2 /\ last.sel = last.len - 1
    /\ selected_index = item_count - 1

\* the rows from the top of the viewport to the bottom of the selected item
RowsThroughSelection(v) ==
    SumHeights(Heights(v), v.scroll_offset, v.selected_index + 1)

\* C3: after every scroll_down on a Timeline, Thread or AuthorFeed, and in
\* the initial state of a newly pushed list (here: at its first render), the
\* selected item is fully on-screen: the heights of the items from
\* scroll_offset through selected_index sum to at most viewport_height.
\* Stated where the claim can be met at all: the list has been rendered and
\* no item is as tall as the viewport.
C3_SelectedItemOnScreen ==
    (/\ ~panicked
     /\ current_view.kind \in {"Timeline", "Thread", "AuthorFeed"}
     /\ RenderedAndFits(current_view)
     /\ \/ last.op = "scroll_down"
        \/ last.op = "render" /\ last.prev_op = "new")
    => /\ scroll_offset <= selected_index
       /\ RowsThroughSelection(current_view) <= current_view.last_known_height

\* the state before a scroll_up, scroll_down pair was valid
PairFromValidState ==
    /\ last.op = "scroll_down" /\ last.prev_op = "scroll_up"
    /\ ~panicked
    /\ last.len > 0
    /\ last.prev_off <= last.prev_sel /\ last.prev_sel < last.len

ChainEnd == MaxAncestors + 1
WorldUris == 1..(MaxAncestors + MaxReplies + 2)

\* record.reply.parent.uri
WorldParent(u) ==
    IF u = 1 THEN NoUri
    ELSE IF u <= ChainEnd THEN u - 1
    ELSE IF u <= ChainEnd + MaxReplies THEN ChainEnd
    ELSE ChainEnd + 1

\* record.reply.root.uri
WorldRoot(u) == IF u = 1 THEN NoUri ELSE 1

\* post.author.did: two authors; the session's user is author 1
AuthorOf(u) == (u % 2) + 1
SessionDid == 1

WorldPost(u) == PostOf(u, PlainBody, WorldParent(u), WorldRoot(u), 0)

RECURSIVE Ascending(_)
\* the elements of a set of numbers, smallest first
Ascending(S) ==
    IF S = {} THEN <<>>
    ELSE LET m == CHOOSE x \in S : \A y \in S : x <= y
         IN  <<m>> \o Ascending(S \ {m})

\* the replies to post u, as the server lists them
WorldReplies(u) == Ascending({c \in WorldUris : WorldParent(c) = u})

RECURSIVE WorldAncestors(_)
\* post.parent, post.parent.parent, ...: the chain above u, root first
WorldAncestors(u) ==
    IF WorldParent(u) = NoUri THEN <<>>
    ELSE Append(WorldAncestors(WorldParent(u)), WorldPost(WorldParent(u)))

RECURSIVE reply_walk(_, _)
\* the order in which process_reply_thread adds the replies: each reply,
\* then its own replies; `todo` are the uris still to visit, and a reply
\* the server gives as NotFound or Blocked is skipped with all below it
reply_walk(todo, blocked) ==
    IF todo = <<>> THEN <<>>
    ELSE IF Head(todo) \in blocked THEN reply_walk(Tail(todo), blocked)
    ELSE <<WorldPost(Head(todo))>>
         \o reply_walk(WorldReplies(Head(todo)) \o Tail(todo), blocked)

\* the number of ancestors, counted from the root, that a NotFound or
\* Blocked parent cuts off: the last post of the chain that is gone, and all
\* above it
missing_ancestors(chain, gone) ==
    IF \E k \in 1..Len(chain) : chain[k].uri \in gone
    THEN CHOOSE k \in 1..Len(chain) :
            /\ chain[k].uri \in gone
            /\ \A j \in (k + 1)..Len(chain) : chain[j].uri \notin gone
    ELSE 0

\* get_post_thread(u) when the posts in `gone` are NotFound or Blocked: the
\* tree handed to Thread::new; `found` is whether it is a ThreadViewPost
\* rather than a NotFoundPost or a BlockedPost.  A uri the server does not
\* know (the empty anchor of a Thread made from such a response) is not
\* found either.
ThreadDataOf(u, gone) ==
    IF u \in gone \/ u \notin WorldUris
    THEN [found |-> FALSE, ancestors |-> <<>>, anchor |-> WorldPost(u), replies |-> <<>>]
    ELSE [found |-> TRUE,
          ancestors |-> SubSeq(WorldAncestors(u),
                               missing_ancestors(WorldAncestors(u), gone) + 1,
                               Len(WorldAncestors(u))),
          anchor |-> WorldPost(u),
          replies |-> reply_walk(WorldReplies(u), gone)]

\* get_post_thread(u) on the server as it is now
ThreadData(u) == ThreadDataOf(u, hidden \cup deleted)

\* the posts the server lists when the posts in `del` have been deleted
Listed(del) == Ascending(WorldUris \ del)

\* get_timeline(cursor): two posts a page, newest (highest uri) last; the
\* cursor is the number of posts already served, 0 standing for None
PageSize == 2
TimelinePageOf(cursor, del) ==
    [k \in 1..Min(PageSize, Len(Listed(del)) - cursor) |-> WorldPost(Listed(del)[cursor + k])]
NextCursorOf(cursor, del) ==
    IF cursor + PageSize >= Len(Listed(del)) THEN 0 ELSE cursor + PageSize
TimelinePage(cursor) == TimelinePageOf(cursor, deleted)
NextCursor(cursor) == NextCursorOf(cursor, deleted)

\* get_author_feed(actor): the actor's posts
AuthorFeedPageOf(did, del) ==
    LET own == Ascending({u \in WorldUris \ del : AuthorOf(u) = did})
    IN  [k \in 1..Len(own) |-> WorldPost(own[k])]
AuthorFeedPage(did) == AuthorFeedPageOf(did, deleted)

\* list_notifications: one notification for each of the first posts
NotificationsPage(n) == [k \in 1..n |-> WorldPost(k)]


(***************************************************************************)
(* App: the operations of View and ViewStack that the input handlers use.  *)
(***************************************************************************)
\* an update_post that adds the post to a list that does not hold its uri
View_update_post_adding(v, updated_post) ==
    LET index == position(v.posts, updated_post.uri)
    IN  IF v.kind = "Notifications" THEN v
        ELSE IF index < 0
        THEN [v EXCEPT !.posts = Append(@, updated_post),
                       !.rendered_posts = Append(@, updated_post)]
        ELSE [v EXCEPT !.posts[index + 1] = updated_post,
                       !.rendered_posts[index + 1] = updated_post]

\* View::update_post: the first item with the uri is replaced
View_update_post(v, updated_post) ==
    LET index == position(v.posts, updated_post.uri)
    IN  IF v.kind = "Notifications" \/ index < 0 THEN v
        ELSE [v EXCEPT !.posts[index + 1] = updated_post,
                       !.rendered_posts[index + 1] = updated_post]

\* View::can_view_thread
can_view_thread(v, uri) == v.kind = "Thread" => uri # v.selected_uri

\* a pop that takes the oldest view instead of the newest
pop_view_bottom(vs) == IF Len(vs) > 1 THEN SubSeq(vs, 2, Len(vs)) ELSE vs

\* ViewStack::pop_view: the stack after the call
pop_view(vs) == IF Len(vs) > 1 THEN SubSeq(vs, 1, Len(vs) - 1) ELSE vs

\* ViewStack::pop_view: whether the call returns Some
pop_view_returns(vs) == IF Len(vs) > 1 THEN "Some" ELSE "None"

RECURSIVE pop_to_timeline(_)
\* handle_command("timeline"): while views.len() > 1 { pop_view() }
pop_to_timeline(vs) == IF Len(vs) > 1 THEN pop_to_timeline(pop_view(vs)) ELSE vs

\* an extend that puts the fetched posts before the existing ones
Feed_extend_front(v, posts, cursor) ==
    [v EXCEPT !.posts = posts \o @, !.rendered_posts = posts \o @, !.cursor = cursor]

\* Feed::load_initial_posts / Feed::scroll on Ok((posts, cursor))
Feed_extend(v, posts, cursor) ==
    [v EXCEPT !.posts = @ \o posts, !.rendered_posts = @ \o posts, !.cursor = cursor]

\* Feed::scroll: the next page is appended on Ok; on Err the error is
\* printed and the feed is left as it was
Feed_scroll_restart(v, outcome) ==
    IF outcome = "ok"
    THEN Feed_extend(v, TimelinePage(0), NextCursor(0))
    ELSE v

Feed_scroll(v, outcome) ==
    IF outcome = "ok"
    THEN Feed_extend(v, TimelinePage(v.cursor), NextCursor(v.cursor))
    ELSE v

\* NotificationView::load_notifications on Ok(response)
load_notifications(v, notifications) ==
    [v EXCEPT !.posts = notifications, !.selected_index = 0, !.scroll_offset = 0]

\* a push that rewinds the view it covers
push_thread_view_rewinding(vs, data) ==
    Append([vs EXCEPT ![Len(vs)].selected_index = 0, ![Len(vs)].scroll_offset = 0],
           Thread_new(data))

\* ViewStack::push_thread_view on Ok(response)
push_thread_view(vs, data) == Append(vs, Thread_new(data))

\* ViewStack::push_author_feed_view when both fetches return Ok
push_author_feed_view(vs, actor) ==
    Append(vs, AuthorFeed_new(actor, AuthorFeedPage(actor)))

\* ViewStack::push_notifications_view
push_notifications_view(vs) == Append(vs, NewList("Notifications"))

\* Feed's needs_more_content: within the look-ahead window of the end
Feed_needs_more_content(v) == v.selected_index >= Len(v.posts) - LookAhead

\* the outcomes of a remote call
Outcomes == {"ok", "failed"}

\* the outcomes of get_timeline: Ok, or one of the ApiErrors
FetchOutcomes == {"ok", "SessionExpired", "NotAuthenticated", "NetworkError"}

\* Feed::load_initial_posts: the feed after the call, whether it returned
\* Ok, and the calls of refresh_session and get_timeline it made.  `first`
\* is the outcome of the first get_timeline, `refresh` of refresh_session,
\* `retry` of the second get_timeline.
Feed_load_initial_posts(v, first, refresh, retry) ==
    LET extended == Feed_extend(v, TimelinePage(0), NextCursor(0))
    IN  IF first = "ok"
        THEN [view |-> extended, ok |-> TRUE, refreshes |-> 0, fetches |-> 1]
        ELSE IF first \in {"SessionExpired", "NotAuthenticated"}
        THEN IF refresh = "ok"
             THEN IF retry = "ok"
                  THEN [view |-> extended, ok |-> TRUE, refreshes |-> 1, fetches |-> 2]
                  ELSE [view |-> v, ok |-> FALSE, refreshes |-> 1, fetches |-> 2]
             ELSE [view |-> v, ok |-> FALSE, refreshes |-> 1, fetches |-> 1]
        ELSE [view |-> v, ok |-> FALSE, refreshes |-> 0, fetches |-> 1]

\* Feed::reload_feed, which is not among the sources: the Timeline holds
\* the first page again; whether the selection and the scroll offset are
\* reset with it is left open
Feed_reload_feed(v, del, reset) ==
    LET loaded == [v EXCEPT !.posts = TimelinePageOf(0, del),
                            !.rendered_posts = TimelinePageOf(0, del),
                            !.cursor = NextCursorOf(0, del)]
    IN  IF reset THEN [loaded EXCEPT !.selected_index = 0, !.scroll_offset = 0]
        ELSE loaded

\* refresh_current_view, Thread arm on Ok: posts and rendered_posts are
\* cleared and the thread data is processed again
Thread_refresh(v, data) ==
    process_thread_data([v EXCEPT !.posts = <<>>, !.rendered_posts = <<>>], data)

\* refresh_current_view, AuthorFeed arm on Ok: posts and rendered_posts are
\* cleared and every post of the response is added
AuthorFeed_refresh(v, feed) == [v EXCEPT !.posts = feed, !.rendered_posts = feed]

\* App::refresh_current_view on the view v, with the posts in `del` deleted
\* from the server: the view after the call and whether the call returned
\* Ok.  The Timeline and Notifications arms return the fetch's error with
\* `?`; the Thread and AuthorFeed arms skip a failed fetch.
refresh_current_view(v, outcome, del, reset, n) ==
    CASE v.kind = "Timeline" ->
            IF outcome = "ok"
            THEN [view |-> Feed_reload_feed(v, del, reset), ok |-> TRUE]
            ELSE [view |-> v, ok |-> FALSE]
      [] v.kind = "Thread" ->
            [view |-> IF outcome = "ok"
                      THEN Thread_refresh(v, ThreadDataOf(v.selected_uri, hidden \cup del))
                      ELSE v,
             ok |-> TRUE]
      [] v.kind = "AuthorFeed" ->
            [view |-> IF outcome = "ok"
                      THEN AuthorFeed_refresh(v, AuthorFeedPageOf(v.profile, del))
                      ELSE v,
             ok |-> TRUE]
      [] v.kind = "Notifications" ->
            IF outcome = "ok"
            THEN [view |-> load_notifications(v, NotificationsPage(n)), ok |-> TRUE]
            ELSE [view |-> v, ok |-> FALSE]

\* the results refresh_current_view can have on the view v
Refreshes(v, del) ==
    { refresh_current_view(v, outcome, del, reset, n) :
         outcome \in Outcomes, reset \in BOOLEAN, n \in 0..PageSize }

\* NotificationView::get_notification indexes the list at selected_index:
\* whether that index is out of bounds
get_notification_panics(v) == v.selected_index >= Len(v.posts)

\* list_notifications with limit 1: nothing, the first notification of the
\* pages, or one newer than all of them
LatestNotifications == {NoUri, 1, PageSize + 1}

\* a handle_new_notification that adds the latest notification without
\* looking for its uri in the list
handle_new_notification_always(v, new_uri) ==
    IF new_uri = NoUri
    THEN v
    ELSE [v EXCEPT !.posts = <<WorldPost(new_uri)>> \o @,
                   !.post_heights[new_uri] = DefaultNotificationHeight]

\* NotificationView::handle_new_notification on Ok(response); new_uri is
\* the uri of response.notifications.first(), NoUri when there is none
handle_new_notification(v, new_uri) ==
    IF new_uri = NoUri \/ \E k \in 1..Len(v.posts) : v.posts[k].uri = new_uri
    THEN v
    ELSE [v EXCEPT !.posts = <<WorldPost(new_uri)>> \o @,
                   !.post_heights[new_uri] = DefaultNotificationHeight]

\* handle_input's visual mode, in the event loop
Visual == pc = "input" /\ ~panicked /\ ~command_mode /\ ~composing

\* handle_input's command mode on Enter: submit_command gives a command
Command == pc = "input" /\ ~panicked /\ command_mode

\* handle_input's compose mode
Compose == pc = "input" /\ ~panicked /\ ~command_mode /\ composing


(***************************************************************************)
(* App::run and the event loop.  Each iteration applies the post updates   *)
(* that have arrived, draws, and handles at most one key.                  *)
(***************************************************************************)
\* What a handler leaves for the claims about it: the operation, its result
\* and the depth of the stack when it started
AppHistory(op, arg) == [NoHistory EXCEPT !.op = op, !.arg = arg, !.depth = Len(views)]

\* App::run up to the event loop: the first draw, then
\* App::load_initial_posts, which unwraps the result of
\* Feed::load_initial_posts and calls update_status before and after it
Run ==
    /\ pc = "start"
    /\ ~panicked
    /\ \E first \in FetchOutcomes, refresh \in Outcomes, retry \in Outcomes :
          LET drawn == render(current_view, area.width, area.height)
              r == Feed_load_initial_posts(drawn, first, refresh, retry)
          IN  /\ views' = SetCurrent(r.view)
              /\ loading' = ~r.ok
              /\ panicked' = ~r.ok
              /\ status_line' = update_status(~r.ok, error, r.view)
              /\ last' = AppHistory("run", [first |-> first, ok |-> r.ok,
                                            refreshes |-> r.refreshes,
                                            fetches |-> r.fetches])
    /\ pc' = "draw"
    /\ UNCHANGED <<error, overflow_checks, post_updates, command_mode, composing, post_composer, env>>

\* event_loop: one post update is received and applied to the current view
UpdatePost ==
    /\ pc = "draw"
    /\ ~panicked
    /\ post_updates # <<>>
    /\ views' = SetCurrent(View_update_post(current_view, Head(post_updates)))
    /\ post_updates' = Tail(post_updates)
    /\ last' = AppHistory("update_post", Head(post_updates))
    /\ UNCHANGED <<error, loading, panicked, overflow_checks, pc, command_mode, composing, post_composer, env, status_line>>

\* event_loop: terminal.draw
Draw ==
    /\ pc = "draw"
    /\ ~panicked
    /\ views' = SetCurrent(render(current_view, area.width, area.height))
    /\ pc' = "input"
    /\ last' = AppHistory("draw", 0)
    /\ UNCHANGED <<error, loading, panicked, overflow_checks, post_updates,
                   command_mode, composing, post_composer, env, status_line>>

\* event_loop: event::poll times out with no key
Tick ==
    /\ pc = "input"
    /\ ~panicked
    /\ pc' = "draw"
    /\ UNCHANGED <<views, error, loading, panicked, overflow_checks, last,
                   post_updates, command_mode, composing, post_composer, env, status_line>>

\* 'j': scroll_down, then on the Timeline a page fetch when more content is
\* needed
Key_j ==
    /\ Visual
    /\ current_view.selected_index < Len(current_view.posts) + MaxOverrun
    /\ LET r == View_scroll_down(current_view, overflow_checks)
       IN  IF r.panic
           THEN /\ views' = SetCurrent(r.view)
                /\ panicked' = TRUE
                /\ last' = AppHistory("key_j", 0)
                /\ UNCHANGED loading
           ELSE IF r.view.kind = "Timeline" /\ Feed_needs_more_content(r.view)
           THEN \E outcome \in Outcomes :
                   /\ views' = SetCurrent(Feed_scroll(r.view, outcome))
                   /\ Len(views'[Len(views)].posts) <= MaxTimelineLen
                   /\ loading' = FALSE
                   /\ panicked' = FALSE
                   /\ last' = AppHistory("scroll", [outcome |-> outcome, view |-> r.view])
           ELSE /\ views' = SetCurrent(r.view)
                /\ last' = AppHistory("key_j", 0)
                /\ UNCHANGED <<loading, panicked>>
    /\ pc' = "draw"
    /\ UNCHANGED <<error, overflow_checks, post_updates, command_mode, composing, post_composer, env>>
    /\ StatusAfterInput

\* 'k'
Key_k ==
    /\ Visual
    /\ views' = SetCurrent(View_scroll_up(current_view))
    /\ pc' = "draw"
    /\ last' = AppHistory("key_k", 0)
    /\ UNCHANGED <<error, loading, panicked, overflow_checks, post_updates,
                   command_mode, composing, post_composer, env>>
    /\ StatusAfterInput

\* 'l': handle_like_post likes the selected post, or unlikes it when it is
\* liked; the spawned task fetches the post again and sends it unless the
\* fetch fails
Key_l ==
    /\ Visual
    /\ LET post == get_selected_post(current_view)
       IN  IF post.uri # NoUri
           THEN \E outcome \in Outcomes :
                   IF outcome = "ok"
                   THEN /\ Len(post_updates) < MaxUpdates
                        /\ post_updates' = Append(post_updates,
                                                  [post EXCEPT !.likes = 1 - @])
                   ELSE UNCHANGED post_updates
           ELSE UNCHANGED post_updates
    /\ pc' = "draw"
    /\ last' = AppHistory("like", 0)
    /\ UNCHANGED <<views, error, loading, panicked, overflow_checks,
                   command_mode, composing, post_composer, env>>
    /\ StatusAfterInput

\* 'v': push the thread of the selected post
Key_v ==
    /\ Visual
    /\ Len(views) < MaxDepth
    /\ LET post == get_selected_post(current_view)
       IN  IF post.uri # NoUri /\ can_view_thread(current_view, post.uri)
           THEN \E outcome \in Outcomes :
                   IF outcome = "ok"
                   THEN /\ views' = push_thread_view(views, ThreadData(post.uri))
                        /\ UNCHANGED error
                        /\ last' = AppHistory("push_thread_view", "ok")
                   ELSE /\ error' = "Failed to load thread"
                        /\ UNCHANGED views
                        /\ last' = AppHistory("push_thread_view", "failed")
           ELSE /\ UNCHANGED <<views, error>>
                /\ last' = AppHistory("push_thread_view", "none")
    /\ pc' = "draw"
    /\ UNCHANGED <<loading, panicked, overflow_checks, post_updates,
                   command_mode, composing, post_composer, env>>
    /\ StatusAfterInput

\* 'n': push a NotificationView unless one is on top, then load it; the
\* result of the load is dropped
Key_n ==
    /\ Visual
    /\ current_view.kind # "Notifications" => Len(views) < MaxDepth
    /\ LET pushed == IF current_view.kind # "Notifications"
                     THEN push_notifications_view(views) ELSE views
           top == pushed[Len(pushed)]
       IN  \E outcome \in Outcomes :
              IF outcome = "ok"
              THEN /\ \E n \in 0..PageSize :
                         views' = [pushed EXCEPT ![Len(pushed)] =
                                      load_notifications(top, NotificationsPage(n))]
                   /\ last' = AppHistory("push_notifications_view", "ok")
              ELSE /\ views' = pushed
                   /\ last' = AppHistory("push_notifications_view", "failed")
    /\ loading' = FALSE
    /\ pc' = "draw"
    /\ UNCHANGED <<error, panicked, overflow_checks, post_updates,
                   command_mode, composing, post_composer, env>>
    /\ StatusAfterInput

\* 'a': push the feed of the selected item's author.  In a NotificationView
\* get_notification indexes the list at selected_index and panics when the
\* list is empty.
Key_a ==
    /\ Visual
    /\ Len(views) < MaxDepth
    /\ IF current_view.kind = "Notifications" /\ Len(current_view.posts) = 0
       THEN /\ panicked' = TRUE
            /\ UNCHANGED <<views, error>>
            /\ last' = AppHistory("push_author_feed_view", "panic")
       ELSE LET post == IF current_view.kind = "Notifications"
                        THEN current_view.posts[current_view.selected_index + 1]
                        ELSE get_selected_post(current_view)
                is_same_author == /\ current_view.kind = "AuthorFeed"
                                  /\ post.uri # NoUri
                                  /\ current_view.profile = AuthorOf(post.uri)
            IN  /\ UNCHANGED panicked
                /\ IF post.uri # NoUri /\ ~is_same_author
                   THEN \E outcome \in Outcomes :
                           IF outcome = "ok"
                           THEN /\ views' = push_author_feed_view(views, AuthorOf(post.uri))
                                /\ UNCHANGED error
                                /\ last' = AppHistory("push_author_feed_view", "ok")
                           ELSE /\ error' = "Failed to load author feed"
                                /\ UNCHANGED views
                                /\ last' = AppHistory("push_author_feed_view", "failed")
                   ELSE /\ UNCHANGED <<views, error>>
                        /\ last' = AppHistory("push_author_feed_view", "none")
    /\ pc' = "draw"
    /\ UNCHANGED <<loading, overflow_checks, post_updates, command_mode, composing, post_composer, env>>
    /\ StatusAfterInput

\* 'A': push the feed of the session's user
Key_A ==
    /\ Visual
    /\ Len(views) < MaxDepth
    /\ \E outcome \in Outcomes :
          IF outcome = "ok"
          THEN /\ views' = push_author_feed_view(views, SessionDid)
               /\ UNCHANGED error
               /\ last' = AppHistory("push_author_feed_view", "ok")
          ELSE /\ error' = "Failed to load your profile"
               /\ UNCHANGED views
               /\ last' = AppHistory("push_author_feed_view", "failed")
    /\ pc' = "draw"
    /\ UNCHANGED <<loading, panicked, overflow_checks, post_updates,
                   command_mode, composing, post_composer, env>>
    /\ StatusAfterInput

\* Esc in visual mode: pop_view, its result dropped
Key_Esc ==
    /\ Visual
    /\ views' = pop_view(views)
    /\ pc' = "draw"
    /\ last' = AppHistory("pop_view", pop_view_returns(views))
    /\ UNCHANGED <<error, loading, panicked, overflow_checks, post_updates,
                   command_mode, composing, post_composer, env>>
    /\ StatusAfterInput

\* ':' in visual mode
Key_Colon ==
    /\ Visual
    /\ command_mode' = TRUE
    /\ pc' = "draw"
    /\ UNCHANGED <<views, error, loading, panicked, overflow_checks, last,
                   post_updates, composing, post_composer, env>>
    /\ StatusAfterInput

\* Esc in command mode
Command_Esc ==
    /\ Command
    /\ command_mode' = FALSE
    /\ pc' = "draw"
    /\ UNCHANGED <<views, error, loading, panicked, overflow_checks, last,
                   post_updates, composing, post_composer, env>>
    /\ StatusAfterInput

\* ":timeline": pop down to the Timeline
Command_timeline ==
    /\ Command
    /\ command_mode' = FALSE
    /\ views' = pop_to_timeline(views)
    /\ pc' = "draw"
    /\ last' = AppHistory("timeline", 0)
    /\ UNCHANGED <<error, loading, panicked, overflow_checks, post_updates, composing, post_composer, env>>
    /\ StatusAfterInput

\* ":notifications": push a NotificationView, then load it; a failed load
\* leaves handle_command with `?`, and handle_input reports it
Command_notifications ==
    /\ Command
    /\ Len(views) < MaxDepth
    /\ command_mode' = FALSE
    /\ LET pushed == push_notifications_view(views)
           top == pushed[Len(pushed)]
       IN  \E outcome \in Outcomes :
              IF outcome = "ok"
              THEN /\ \E n \in 0..PageSize :
                         views' = [pushed EXCEPT ![Len(pushed)] =
                                      load_notifications(top, NotificationsPage(n))]
                   /\ loading' = FALSE
                   /\ UNCHANGED error
                   /\ last' = AppHistory("push_notifications_view", "ok")
              ELSE /\ views' = pushed
                   /\ loading' = TRUE
                   /\ error' = "Command error"
                   /\ last' = AppHistory("push_notifications_view", "failed")
    /\ pc' = "draw"
    /\ UNCHANGED <<panicked, overflow_checks, post_updates, composing, post_composer, env>>
    /\ StatusAfterInput

\* ":profile" and ":profile <handle>": handle_get_profile drops the result
\* of push_author_feed_view
Command_profile ==
    /\ Command
    /\ Len(views) < MaxDepth
    /\ command_mode' = FALSE
    /\ \E with_handle \in BOOLEAN :
          LET post == get_selected_post(current_view)
              from_notification == post.uri = NoUri /\ current_view.kind = "Notifications"
          IN  IF ~with_handle /\ from_notification /\ get_notification_panics(current_view)
              THEN /\ panicked' = TRUE
                   /\ UNCHANGED views
                   /\ last' = AppHistory("push_author_feed_view", "panic")
              ELSE IF ~with_handle /\ post.uri = NoUri /\ ~from_notification
              THEN /\ UNCHANGED <<views, panicked>>
                   /\ last' = AppHistory("push_author_feed_view", "none")
              ELSE /\ UNCHANGED panicked
                   /\ \E actor \in {1, 2} :
                         /\ ~with_handle =>
                               actor = IF from_notification
                                       THEN AuthorOf(current_view.posts[current_view.selected_index + 1].uri)
                                       ELSE AuthorOf(post.uri)
                         /\ \E outcome \in Outcomes :
                               IF outcome = "ok"
                               THEN /\ views' = push_author_feed_view(views, actor)
                                    /\ last' = AppHistory("push_author_feed_view", "ok")
                               ELSE /\ UNCHANGED views
                                    /\ last' = AppHistory("push_author_feed_view", "failed")
    /\ pc' = "draw"
    /\ UNCHANGED <<error, loading, overflow_checks, post_updates, composing, post_composer, env>>
    /\ StatusAfterInput

\* ":reply": push the thread of the selected post, then open the composer
Command_reply ==
    /\ Command
    /\ Len(views) < MaxDepth
    /\ command_mode' = FALSE
    /\ LET post == get_selected_post(current_view)
       IN  IF post.uri = NoUri
           THEN /\ UNCHANGED <<views, error, composing, post_composer>>
                /\ last' = AppHistory("push_thread_view", "none")
           ELSE IF ~can_view_thread(current_view, post.uri)
           THEN /\ UNCHANGED <<views, error>>
                /\ composing' = TRUE
                /\ post_composer' = "Some"
                /\ last' = AppHistory("push_thread_view", "none")
           ELSE \E outcome \in Outcomes :
                   IF outcome = "ok"
                   THEN /\ views' = push_thread_view(views, ThreadData(post.uri))
                        /\ composing' = TRUE
                        /\ post_composer' = "Some"
                        /\ UNCHANGED error
                        /\ last' = AppHistory("push_thread_view", "ok")
                   ELSE /\ error' = "Command error"
                        /\ UNCHANGED <<views, composing, post_composer>>
                        /\ last' = AppHistory("push_thread_view", "failed")
    /\ pc' = "draw"
    /\ UNCHANGED <<loading, panicked, overflow_checks, post_updates, env>>
    /\ StatusAfterInput

\* a ":post" that opens the composer and stays in command mode
Command_post_staying ==
    /\ Command
    /\ composing' = TRUE
    /\ post_composer' = "Some"
    /\ pc' = "draw"
    /\ UNCHANGED <<views, error, loading, panicked, overflow_checks, last, post_updates,
                   command_mode, env>>
    /\ StatusAfterInput

\* ":post": open the composer
Command_post ==
    /\ Command
    /\ command_mode' = FALSE
    /\ composing' = TRUE
    /\ post_composer' = "Some"
    /\ pc' = "draw"
    /\ UNCHANGED <<views, error, loading, panicked, overflow_checks, last, post_updates, env>>
    /\ StatusAfterInput

\* Esc in compose mode
Compose_Esc ==
    /\ Compose
    /\ composing' = FALSE
    /\ post_composer' = "None"
    /\ pc' = "draw"
    /\ UNCHANGED <<views, error, loading, panicked, overflow_checks, last,
                   post_updates, command_mode, env>>
    /\ StatusAfterInput

\* Ctrl+S in compose mode: create_post, then the Timeline loads its first
\* page again and a Thread pushes the thread of its anchor again, the
\* result dropped with ok() in both cases
Compose_submit ==
    /\ Compose
    /\ current_view.kind = "Thread" => Len(views) < MaxDepth
    /\ \E created \in Outcomes, outcome \in Outcomes,
          first \in FetchOutcomes, refresh \in Outcomes, retry \in Outcomes :
          IF created = "failed"
          THEN /\ outcome = "failed" /\ first = "ok" /\ refresh = "ok" /\ retry = "ok"
               /\ error' = "Failed to create post"
               /\ UNCHANGED <<views, composing, post_composer>>
          ELSE /\ composing' = FALSE
               /\ post_composer' = "None"
               /\ UNCHANGED error
               /\ IF current_view.kind = "Timeline"
                  THEN LET r == Feed_load_initial_posts(current_view, first, refresh, retry)
                       IN  /\ outcome = "ok"
                           /\ Len(r.view.posts) <= MaxTimelineLen
                           /\ views' = SetCurrent(r.view)
                  ELSE /\ first = "ok" /\ refresh = "ok" /\ retry = "ok"
                       /\ IF current_view.kind = "Thread" /\ outcome = "ok"
                          THEN views' = push_thread_view(views, ThreadData(current_view.selected_uri))
                          ELSE UNCHANGED views
    /\ pc' = "draw"
    /\ last' = AppHistory("create_post", 0)
    /\ UNCHANGED <<loading, panicked, overflow_checks, post_updates, command_mode, env>>
    /\ StatusAfterInput

\* App::handle_follow, called for 'f' and for ":follow"
handle_follow ==
    IF current_view.kind = "Notifications" /\ get_notification_panics(current_view)
    THEN /\ panicked' = TRUE
         /\ UNCHANGED <<views, error, loading>>
         /\ last' = AppHistory("follow", "panic")
    ELSE /\ UNCHANGED panicked
         /\ IF current_view.kind # "Notifications"
               /\ get_selected_post(current_view).uri = NoUri
            THEN /\ UNCHANGED <<views, error, loading>>
                 /\ last' = AppHistory("follow", "none")
            ELSE \E profile \in Outcomes :
                    IF profile = "ok"
                    THEN \E r \in Refreshes(current_view, deleted) :
                            /\ views' = SetCurrent(r.view)
                            /\ loading' = ~r.ok
                            /\ error' = IF r.ok THEN error ELSE "Failed to refresh view"
                            /\ last' = AppHistory("follow", "ok")
                    ELSE /\ error' = "Failed to get profile"
                         /\ UNCHANGED <<views, loading>>
                         /\ last' = AppHistory("follow", "failed")

\* 'f'
Key_f ==
    /\ Visual
    /\ handle_follow
    /\ pc' = "draw"
    /\ UNCHANGED <<overflow_checks, post_updates, command_mode, composing, post_composer, env>>
    /\ StatusAfterInput

\* 'q' in visual mode: event_loop returns Ok(())
Key_q ==
    /\ Visual
    /\ pc' = "returned"
    /\ result' = "Ok"
    /\ last' = AppHistory("quit", 0)
    /\ UNCHANGED <<views, error, loading, panicked, overflow_checks, post_updates,
                   command_mode, composing, post_composer, area, hidden, deleted, status_line, background>>

\* ":follow"
Command_follow ==
    /\ Command
    /\ command_mode' = FALSE
    /\ handle_follow
    /\ pc' = "draw"
    /\ UNCHANGED <<overflow_checks, post_updates, composing, post_composer, env>>
    /\ StatusAfterInput

\* ":refresh": a failed refresh leaves handle_command with `?`
Command_refresh ==
    /\ Command
    /\ command_mode' = FALSE
    /\ \E r \in Refreshes(current_view, deleted) :
          /\ views' = SetCurrent(r.view)
          /\ loading' = ~r.ok
          /\ error' = IF r.ok THEN error ELSE "Command error"
          /\ last' = AppHistory("refresh", [ok |-> r.ok, view |-> current_view])
    /\ pc' = "draw"
    /\ UNCHANGED <<panicked, overflow_checks, post_updates, composing, post_composer, env>>
    /\ StatusAfterInput

\* ":delete": delete_post when the selected post is the session user's,
\* then refresh_current_view (once more after a successful delete); the
\* results of the refreshes are dropped
Command_delete ==
    /\ Command
    /\ command_mode' = FALSE
    /\ LET post == get_selected_post(current_view)
       IN  IF post.uri = NoUri
           THEN /\ UNCHANGED <<views, error, loading, deleted>>
                /\ last' = AppHistory("delete", [outcome |-> "none", calls |-> 0,
                                                 view |-> current_view])
           ELSE IF AuthorOf(post.uri) # SessionDid
           THEN \E r \in Refreshes(current_view, deleted) :
                   /\ views' = SetCurrent(r.view)
                   /\ loading' = ~r.ok
                   /\ UNCHANGED <<error, deleted>>
                   /\ last' = AppHistory("delete", [outcome |-> "denied", calls |-> 0,
                                                    view |-> current_view])
           ELSE \E outcome \in Outcomes :
                   IF outcome = "ok"
                   THEN /\ deleted' = deleted \cup {post.uri}
                        /\ \E r1 \in Refreshes(current_view, deleted') :
                              \E r2 \in Refreshes(r1.view, deleted') :
                                 /\ views' = SetCurrent(r2.view)
                                 /\ loading' = ~r2.ok
                        /\ UNCHANGED error
                        /\ last' = AppHistory("delete", [outcome |-> "deleted", calls |-> 1,
                                                         view |-> current_view])
                   ELSE /\ error' = "Failed to delete post"
                        /\ UNCHANGED deleted
                        /\ \E r \in Refreshes(current_view, deleted) :
                              /\ views' = SetCurrent(r.view)
                              /\ loading' = ~r.ok
                        /\ last' = AppHistory("delete", [outcome |-> "failed", calls |-> 1,
                                                         view |-> current_view])
    /\ pc' = "draw"
    /\ UNCHANGED <<panicked, overflow_checks, post_updates, composing, post_composer, area, hidden, result, background>>
    /\ StatusAfterInput

\* event_loop: update_manager.try_recv gives a Notification event.  The
\* events are handled after the key of an iteration, before the post
\* updates and the draw of the next; with a NotificationView on top, which
\* a post update leaves as it is, the order of the two makes no difference.
\* The result of handle_new_notification is returned from the loop with `?`.
NewNotification ==
    /\ pc = "draw"
    /\ ~panicked
    /\ current_view.kind = "Notifications"
    /\ \E outcome \in Outcomes :
          /\ IF outcome = "ok"
             THEN /\ \E new_uri \in LatestNotifications :
                        views' = SetCurrent(handle_new_notification(current_view, new_uri))
                  /\ UNCHANGED <<pc, result>>
             ELSE /\ pc' = "returned"
                  /\ result' = "Err"
                  /\ UNCHANGED views
          /\ last' = AppHistory("new_notification", outcome)
    /\ UNCHANGED <<error, loading, panicked, overflow_checks, post_updates,
                   command_mode, composing, post_composer, area, hidden, deleted, status_line, background>>

\* event_loop: check_notifications, once the check interval has elapsed,
\* loads the notifications again when a NotificationView is on top; the
\* result is dropped
CheckNotifications ==
    /\ pc = "draw"
    /\ ~panicked
    /\ current_view.kind = "Notifications"
    /\ \E outcome \in Outcomes, n \in 0..PageSize :
          /\ views' = SetCurrent(IF outcome = "ok"
                                 THEN load_notifications(current_view, NotificationsPage(n))
                                 ELSE current_view)
          /\ last' = AppHistory("check_notifications", outcome)
    /\ UNCHANGED <<error, loading, panicked, overflow_checks, pc, post_updates,
                   command_mode, composing, post_composer, env, status_line>>

(***************************************************************************)
(* The application specification: App::new, App::run, the event loop.      *)
(***************************************************************************)
\* App::new with ViewStack::new
InitApp ==
    /\ views = <<NewList("Timeline")>>
    /\ error = "none"
    /\ loading = TRUE
    /\ panicked = FALSE
    /\ overflow_checks \in BOOLEAN
    /\ last = NoHistory
    /\ pc = "start"
    /\ post_updates = <<>>
    /\ command_mode = FALSE
    /\ composing = FALSE
    /\ post_composer = "None"
    /\ area \in Terminals
    /\ hidden = {}
    /\ deleted = {}
    /\ result = "none"
    /\ BackgroundIdle
    /\ status_line = StatusText("")

NextApp ==
    \/ Run \/ Draw \/ Tick
    \/ Key_j \/ Key_k \/ Key_v \/ Key_n \/ Key_a \/ Key_A \/ Key_Esc
    \/ Key_Colon \/ Command_Esc \/ Command_timeline \/ Command_notifications
    \/ Command_profile \/ Command_reply \/ Command_post
    \/ Compose_Esc \/ Compose_submit

SpecApp == InitApp /\ [][NextApp]_vars

(***************************************************************************)
(* The thread specification: threads are opened from the Timeline and      *)
(* from other threads, with any one post of the server hidden.             *)
(***************************************************************************)
InitThread ==
    /\ views = <<NewList("Timeline")>>
    /\ error = "none"
    /\ loading = TRUE
    /\ panicked = FALSE
    /\ overflow_checks \in BOOLEAN
    /\ last = NoHistory
    /\ pc = "start"
    /\ post_updates = <<>>
    /\ command_mode = FALSE
    /\ composing = FALSE
    /\ post_composer = "None"
    /\ area \in Terminals
    /\ hidden \in {{}} \cup {{u} : u \in WorldUris}
    /\ deleted = {}
    /\ result = "none"
    /\ BackgroundIdle
    /\ status_line = StatusText("")

NextThread == Run \/ Draw \/ Tick \/ Key_j \/ Key_k \/ Key_v \/ Key_Esc

SpecThread == InitThread /\ [][NextThread]_vars

(***************************************************************************)
(* The update specification: posts are liked, composed and updated in      *)
(* place while the lists are scrolled.                                     *)
(***************************************************************************)
NextUpdates ==
    \/ Run \/ UpdatePost \/ Draw \/ Tick
    \/ Key_j \/ Key_k \/ Key_l
    \/ Key_Colon \/ Command_post \/ Compose_submit

SpecUpdates == InitApp /\ [][NextUpdates]_vars


(***************************************************************************)
(* Properties of the view stack.                                           *)
(***************************************************************************)
PushOps == {"push_thread_view", "push_author_feed_view", "push_notifications_view"}
StackOps == PushOps \cup {"pop_view", "timeline"}

\* C6: the stack is never empty and its bottom view is the Timeline; a
\* pop_view on a stack of one view returns None and leaves the stack as it
\* was; no push, pop or timeline command changes the bottom view.
C6_TimelineStaysAtBottom ==
    /\ [](/\ Len(views) >= 1
          /\ views[1].kind = "Timeline"
          /\ (last.op = "pop_view" /\ last.depth = 1) => last.arg = "None")
    /\ [][(last'.op = "pop_view" /\ Len(views) = 1) => views' = views]_vars
    /\ [][last'.op \in StackOps => views'[1] = views[1]]_vars

\* C6 (witness): Esc has been pressed with only the Timeline on the stack
C6_Witness == last.op = "pop_view" /\ last.depth = 1 /\ Len(views) = 1

\* C7: after a push whose remote call failed, the stack is as long as it
\* was before the push and App.error is set.
C7_FailedPushLeavesStack ==
    (last.op \in PushOps /\ last.arg = "failed")
        => (Len(views) = last.depth /\ error # "none")

(***************************************************************************)
(* Properties of the thread relationships.                                 *)
(***************************************************************************)
\* the Thread views whose anchor was found and whose chain of ancestors was
\* fetched up to the root
ThreadsOnStack == {d \in 1..Len(views) : views[d].kind = "Thread" /\ Len(views[d].posts) > 0}
\* the index of the anchor in posts
anchor_index(v) == position(v.posts, v.selected_uri)
\* ThreadRelationships::is_visible and get_indent_level on the cached value
is_visible(v, uri) == uri \in v.cached_relationships.visible_posts
get_indent_level(v, uri) == v.cached_relationships.indent_levels[uri]

\* C8: in a thread with the chain of ancestors a_0 = root .. a_k = anchor,
\* every a_i is visible at indent level i and every reply to the anchor is
\* visible at indent level k + 1.
C8_IndentIsDepthInThread ==
    \A d \in ThreadsOnStack :
        LET v == views[d]
            k == anchor_index(v)
        IN  (v.cached_relationships.present /\ v.posts[1].parent = NoUri)
            => /\ \A i \in 0..k : /\ is_visible(v, v.posts[i + 1].uri)
                                   /\ get_indent_level(v, v.posts[i + 1].uri) = i
               /\ \A j \in 1..Len(v.posts) :
                     v.posts[j].parent = v.selected_uri
                        => /\ is_visible(v, v.posts[j].uri)
                           /\ get_indent_level(v, v.posts[j].uri) = k + 1

\* the uris of the posts above u in the server's reply tree
AncestorUris(u) == {WorldAncestors(u)[k].uri : k \in 1..Len(WorldAncestors(u))}

\* C9: a fetched post that replies neither to the anchor nor to an ancestor
\* of the anchor is not in the visible set.
C9_OnlyRepliesToAnchorOrAncestorsVisible ==
    \A d \in ThreadsOnStack :
        LET v == views[d]
        IN  v.cached_relationships.present
            => \A j \in 1..Len(v.posts) :
                  (/\ v.posts[j].parent # NoUri
                   /\ v.posts[j].parent # v.selected_uri
                   /\ v.posts[j].parent \notin AncestorUris(v.selected_uri))
                      => ~is_visible(v, v.posts[j].uri)

\* C9 (witness): a thread holds a reply to a reply of its anchor, and the
\* relationships hide it
C9_Witness ==
    \E d \in ThreadsOnStack :
        LET v == views[d]
        IN  /\ v.cached_relationships.present
            /\ \E i, j \in 1..Len(v.posts) :
                  /\ v.posts[i].parent = v.selected_uri
                  /\ v.posts[j].parent = v.posts[i].uri
                  /\ ~is_visible(v, v.posts[j].uri)

(***************************************************************************)
(* Properties of update_post.                                              *)
(***************************************************************************)
\* C10: after update_post(p) with p.uri the uri of the selected item of a
\* Timeline, Thread or AuthorFeed, get_selected_post() returns p.
C10_UpdatedSelectionIsReadBack ==
    (/\ last.op = "update_post"
     /\ current_view.kind \in {"Timeline", "Thread", "AuthorFeed"}
     /\ get_selected_post(current_view).uri = last.arg.uri)
        => get_selected_post(current_view) = last.arg

(***************************************************************************)
(* Properties of error handling.                                           *)
(***************************************************************************)
\* C14: when the initial timeline fetch fails with SessionExpired, the
\* client calls refresh_session once and retries the fetch once (after a
\* successful refresh); if the refresh or the retry fails, the failure is
\* surfaced as a status message, the process does not crash, and the list's
\* items and cursor are unchanged.
C14_ExpiredSessionRetriedOnceThenReported ==
    (last.op = "run" /\ last.arg.first = "SessionExpired")
        => /\ last.arg.refreshes = 1
           /\ last.arg.fetches <= 2
           /\ ~last.arg.ok
                 => /\ ~panicked
                    /\ status_line.text \notin {"", "Loading...", "help"}
                    /\ views[1].posts = <<>>
                    /\ views[1].cursor = 0

\* C15: when a pagination fetch (Feed::scroll) or a thread fetch
\* (push_thread_view) fails, the list (items, cursor, selected_index,
\* scroll_offset) and the view stack are as they were when the fetch
\* started, and App.error is set.
C15_FailedFetchLeavesListAndSetsError ==
    /\ (last.op = "scroll" /\ last.arg.outcome = "failed")
          => /\ current_view = last.arg.view
             /\ Len(views) = last.depth
             /\ error # "none"
    /\ (last.op = "push_thread_view" /\ last.arg = "failed")
          => /\ Len(views) = last.depth
             /\ error # "none"

(***************************************************************************)
(* The events specification: the event loop with the live notification    *)
(* events, the periodic notification check, follow and quit.               *)
(***************************************************************************)
NextEvents ==
    \/ Run \/ Draw \/ Tick \/ NewNotification \/ CheckNotifications
    \/ Key_j \/ Key_k \/ Key_n \/ Key_a \/ Key_f \/ Key_q \/ Key_Esc
    \/ Key_Colon \/ Command_Esc \/ Command_notifications
    \/ Command_profile \/ Command_follow

SpecEvents == InitApp /\ [][NextEvents]_vars

\* C16: the event loop returns only when the user presses q outside command
\* mode and compose mode; no failing remote call (the fetch of a live
\* new-notification event, a failing initial timeline load) makes the loop
\* return an error or the process abort.
C16_LoopReturnsOnlyOnQuit ==
    /\ ~panicked
    /\ result # "none" => (result = "Ok" /\ last.op = "quit")

\* C17: with the Notifications view on top and its list empty (the load
\* failed or returned no items), every key and command of the view (a, f,
\* j, k, :profile, :follow) completes without panicking.
C17_EmptyNotificationsNeverPanic ==
    (current_view.kind = "Notifications" /\ Len(current_view.posts) = 0)
        => ~panicked

\* ---------------------------------------------------------------------
\* The delete specification: the timeline and its threads, moving down,
\* and the commands that delete a post and refresh the view
\* ---------------------------------------------------------------------

NextDelete ==
    \/ Run
    \/ Draw
    \/ Tick
    \/ Key_j
    \/ Key_v
    \/ Key_Colon
    \/ Command_delete
    \/ Command_refresh

SpecDelete == InitApp /\ [][NextDelete]_vars

\* C18: when :delete is run with a selected post whose author is not the
\* session user, delete_post is not called, the current view (items, cursor
\* and selection) is what it was before the command, so nothing was fetched
\* again, and the status line holds the permission message when
\* handle_input returns.
C18_DeleteOfForeignPostOnlyReports ==
    (last.op = "delete" /\ last.arg.outcome = "denied")
        => /\ last.arg.calls = 0
           /\ current_view = last.arg.view
           /\ status_line.text = "You can only delete your own posts"

(***************************************************************************)
(* The lists specification: one list of each variant, as constructed, is   *)
(* on top of the stack; it is loaded, refreshed, rendered and scrolled,    *)
(* and its posts are removed.                                              *)
(***************************************************************************)
\* Thread::update_relationships, which View::remove_post calls and which is
\* not among the sources: the relationships are derived again
Thread_update_relationships(v) ==
    get_relationships([v EXCEPT !.cached_relationships = NoRelationships])

\* View::remove_post: the first item with the uri is removed from posts and
\* from rendered_posts; nothing else of the list is touched
View_remove_post(v, uri) ==
    LET index == position(v.posts, uri)
    IN  IF v.kind = "Notifications" \/ index < 0 THEN v
        ELSE LET removed == [v EXCEPT !.posts = RemoveAt(@, index),
                                      !.rendered_posts = RemoveAt(@, index)]
             IN  IF v.kind = "Thread" THEN Thread_update_relationships(removed)
                 ELSE removed

\* the uris of a sequence of posts, in order
UrisOf(posts) == [k \in 1..Len(posts) |-> posts[k].uri]

\* ensure_post_heights: posts_to_calculate, the items whose uri has no entry
\* in the cache when the call starts; one height is computed for each
posts_to_calculate(v) ==
    IF v.kind = "Notifications" THEN <<>>
    ELSE SelectSeq(v.posts, LAMBDA p : v.post_heights[p.uri] = 0)

\* the height ensure_post_heights computes for a post of the list v
computed_height(v, post, width) ==
    IF v.kind = "Timeline" THEN Feed_calculate_post_height(post)
    ELSE calculate_post_height(post, width)

\* what an operation on the list was given, and what it computed
NoArg == [width |-> 0, computed |-> <<>>]

\* the last operation on the list
ListHistory(op, arg) == [NoHistory EXCEPT !.op = op, !.arg = arg]

\* Feed::load_initial_posts on the Timeline
ListLoad ==
    /\ ~panicked
    /\ current_view.kind = "Timeline"
    /\ \E first \in FetchOutcomes, refresh \in Outcomes, retry \in Outcomes :
          LET r == Feed_load_initial_posts(current_view, first, refresh, retry)
          IN  /\ Len(r.view.posts) <= MaxTimelineLen
              /\ views' = SetCurrent(r.view)
    /\ last' = ListHistory("load", NoArg)
    /\ UNCHANGED <<error, loading, panicked, overflow_checks, app_rest>>

\* Feed::scroll on the Timeline
ListPaginate ==
    /\ ~panicked
    /\ current_view.kind = "Timeline"
    /\ \E outcome \in Outcomes :
          /\ Len(Feed_scroll(current_view, outcome).posts) <= MaxTimelineLen
          /\ views' = SetCurrent(Feed_scroll(current_view, outcome))
    /\ last' = ListHistory("paginate", NoArg)
    /\ UNCHANGED <<error, loading, panicked, overflow_checks, app_rest>>

\* App::refresh_current_view
ListRefresh ==
    /\ ~panicked
    /\ \E r \in Refreshes(current_view, deleted) : views' = SetCurrent(r.view)
    /\ last' = ListHistory("refresh", NoArg)
    /\ UNCHANGED <<error, loading, panicked, overflow_checks, app_rest>>

\* View::update_post with a post fetched again
ListUpdate ==
    /\ ~panicked
    /\ \E k \in 1..Len(current_view.posts) :
          LET updated_post == [current_view.posts[k] EXCEPT !.likes = 1 - @]
          IN  /\ views' = SetCurrent(View_update_post(current_view, updated_post))
              /\ Cardinality({j \in 1..Len(current_view.posts) :
                                 views'[Len(views)].posts[j].likes > 0}) <= MaxUpdates
    /\ last' = ListHistory("update_post", NoArg)
    /\ UNCHANGED <<error, loading, panicked, overflow_checks, app_rest>>

\* View::remove_post with the uri of a post of the list
ListRemove ==
    /\ ~panicked
    /\ \E k \in 1..Len(current_view.posts) :
          LET uri == current_view.posts[k].uri
          IN  views' = SetCurrent(View_remove_post(current_view, uri))
    /\ last' = ListHistory("remove_post", NoArg)
    /\ UNCHANGED <<error, loading, panicked, overflow_checks, app_rest>>

\* terminal.draw: the current view is rendered into the terminal's area
ListRender ==
    /\ ~panicked
    /\ views' = SetCurrent(render(current_view, area.width, area.height))
    /\ last' = ListHistory("render",
                  [NoArg EXCEPT !.width = area.width,
                                !.computed = UrisOf(posts_to_calculate(current_view))])
    /\ UNCHANGED <<error, loading, panicked, overflow_checks, app_rest>>

\* the terminal is resized
Resize ==
    /\ \E t \in Terminals \ {area} : area' = t
    /\ UNCHANGED <<views, error, loading, panicked, overflow_checks, last, pc,
                   post_updates, command_mode, composing, post_composer, hidden, deleted, result,
                   status_line, background>>

\* View::scroll_down on the current view, until the selection is MaxOverrun
\* past the end of the list
ListScrollDown ==
    /\ ~panicked
    /\ current_view.selected_index < Len(current_view.posts) + MaxOverrun
    /\ LET r == View_scroll_down(current_view, overflow_checks)
       IN  /\ views' = SetCurrent(r.view)
           /\ panicked' = r.panic
    /\ last' = ListHistory("scroll_down", NoArg)
    /\ UNCHANGED <<error, loading, overflow_checks, app_rest>>

\* View::scroll_up on the current view
ListScrollUp ==
    /\ ~panicked
    /\ views' = SetCurrent(View_scroll_up(current_view))
    /\ last' = ListHistory("scroll_up", NoArg)
    /\ UNCHANGED <<error, loading, panicked, overflow_checks, app_rest>>

\* the server stops giving a post as NotFound or Blocked
Unblock ==
    /\ hidden # {}
    /\ hidden' = {}
    /\ UNCHANGED <<views, error, loading, panicked, overflow_checks, last, pc,
                   post_updates, command_mode, composing, post_composer, area, deleted, result,
                   status_line, background>>

\* the replies to the thread's anchor, which the server gives as Blocked
\* when the lists are made
BlockedReplies == {u \in WorldUris : WorldParent(u) = ChainEnd}

\* the lists as their constructors leave them
NewLists ==
    {NewList("Timeline"), NewList("Notifications")}
    \cup { Thread_new(ThreadData(ChainEnd)) }
    \cup { AuthorFeed_new(did, AuthorFeedPage(did)) : did \in {AuthorOf(u) : u \in WorldUris} }

InitLists ==
    /\ hidden = BlockedReplies
    /\ deleted = {}
    /\ area \in Terminals
    /\ \E top \in NewLists :
          views = IF top.kind = "Timeline" THEN <<top>>
                  ELSE <<NewList("Timeline"), top>>
    /\ error = "none"
    /\ loading = FALSE
    /\ panicked = FALSE
    /\ overflow_checks \in BOOLEAN
    /\ last = NoHistory
    /\ pc = "input"
    /\ post_updates = <<>>
    /\ command_mode = FALSE
    /\ composing = FALSE
    /\ post_composer = "None"
    /\ result = "none"
    /\ BackgroundIdle
    /\ status_line = StatusText("")

NextLists ==
    \/ ListLoad
    \/ ListRefresh
    \/ ListRemove
    \/ ListRender
    \/ ListScrollDown
    \/ ListScrollUp

SpecLists == InitLists /\ [][NextLists]_vars

(***************************************************************************)
(* The order specification: the same lists are loaded and paginated, and   *)
(* their posts are updated and removed.                                    *)
(***************************************************************************)
NextOrder ==
    \/ ListLoad
    \/ ListPaginate
    \/ ListUpdate
    \/ ListRemove

SpecOrder == InitLists /\ [][NextOrder]_vars

(***************************************************************************)
(* The heights specification: the same lists are loaded, paginated,        *)
(* refreshed and rendered while the terminal is resized and the blocked    *)
(* replies come back.                                                      *)
(***************************************************************************)
NextHeights ==
    \/ ListLoad
    \/ ListPaginate
    \/ ListRefresh
    \/ ListRender
    \/ Resize
    \/ Unblock

SpecHeights == InitLists /\ [][NextHeights]_vars

(***************************************************************************)
(* Properties of the lists under removal, refresh and pagination.          *)
(***************************************************************************)
\* the current view after the step
current_view_after == views'[Len(views')]

\* the cursor of a list points into it
CursorInList(v) ==
    /\ v.scroll_offset <= v.selected_index
    /\ IF Len(v.posts) > 0 THEN v.selected_index < Len(v.posts)
       ELSE v.selected_index = 0

\* C11: once remove_post has removed the only item of a list,
\* get_selected_post gives None, and a scroll_down or scroll_up on the
\* emptied list does not panic, leaves selected_index and scroll_offset at 0
\* and get_selected_post at None.
C11_EmptiedListStaysValid ==
    [][/\ (last'.op = "remove_post" /\ Len(current_view.posts) = 1)
            => get_selected_post(current_view_after) = NoPost
       /\ (/\ last.op = "remove_post"
           /\ Len(current_view.posts) = 0
           /\ current_view.selected_index = 0
           /\ current_view.scroll_offset = 0
           /\ last'.op \in {"scroll_down", "scroll_up"})
            => /\ ~panicked'
               /\ current_view_after.selected_index = 0
               /\ current_view_after.scroll_offset = 0
               /\ get_selected_post(current_view_after) = NoPost]_vars

\* C12: a remove_post or a refresh_current_view on a list whose cursor
\* pointed into it, which leaves the list non-empty, leaves
\* selected_index < item count and scroll_offset <= selected_index.
C12_CursorInListAfterShrink ==
    [][(/\ last'.op \in {"remove_post", "refresh"}
        /\ CursorInList(current_view)
        /\ Len(current_view_after.posts) > 0)
          => /\ current_view_after.selected_index < Len(current_view_after.posts)
             /\ current_view_after.scroll_offset <= current_view_after.selected_index]_vars

RECURSIVE IsSubsequence(_, _)
\* whether the sequence a is b with some elements left out
IsSubsequence(a, b) ==
    IF a = <<>> THEN TRUE
    ELSE IF b = <<>> THEN FALSE
    ELSE IF Head(a) = Head(b) THEN IsSubsequence(Tail(a), Tail(b))
    ELSE IsSubsequence(a, Tail(b))

\* C13: no operation changes the relative order of the items that remain:
\* the initial load and pagination keep the existing items as they are and
\* append after them, update_post leaves the uri at every index, and
\* remove_post leaves the remaining items in the order they had.
C13_OrderOfRemainingItemsKept ==
    [][LET old == current_view.posts
           new == current_view_after.posts
       IN  /\ last'.op \in {"load", "paginate"}
                => /\ Len(new) >= Len(old)
                   /\ SubSeq(new, 1, Len(old)) = old
           /\ last'.op = "update_post" => UrisOf(new) = UrisOf(old)
           /\ last'.op = "remove_post"
                => /\ Len(new) = Len(old) - 1
                   /\ IsSubsequence(new, old)]_vars

\* C13, witness: a post has been removed from a Timeline that was loaded and
\* paginated and holds an updated post; three or more posts remain
C13_RemovedFromPaginatedTimeline ==
    /\ last.op = "remove_post"
    /\ current_view.kind = "Timeline"
    /\ Len(current_view.posts) >= 3
    /\ \E k \in 1..Len(current_view.posts) : current_view.posts[k].likes = 1

(***************************************************************************)
(* Properties of the height cache.                                         *)
(***************************************************************************)
\* C19: after a render of a Timeline, a Thread or an AuthorFeed, a second
\* ensure_post_heights has no height to compute and leaves the cache as it
\* is, at any width; and the render computed at most one height for each
\* uri.
C19_HeightsComputedOncePerUri ==
    (last.op = "render" /\ current_view.kind # "Notifications")
        => /\ posts_to_calculate(current_view) = <<>>
           /\ \A w \in ViewportWidths :
                 ensure_post_heights(current_view, w).post_heights
                    = current_view.post_heights
           /\ \A i, j \in 1..Len(last.arg.computed) :
                 i # j => last.arg.computed[i] # last.arg.computed[j]

\* C20: a render leaves every entry of the height cache as it was, whatever
\* the width it was computed at, and an entry it adds is the height of a post
\* of the list at the width of this render.
C20_CachedHeightsKeptAcrossWidths ==
    [][last'.op = "render"
          => \A u \in Uris :
                /\ current_view.post_heights[u] # 0
                     => current_view_after.post_heights[u] = current_view.post_heights[u]
                /\ (current_view.post_heights[u] = 0
                    /\ current_view_after.post_heights[u] # 0)
                     => \E k \in 1..Len(current_view.posts) :
                           /\ current_view.posts[k].uri = u
                           /\ current_view_after.post_heights[u]
                                = computed_height(current_view, current_view.posts[k],
                                                  area.width)]_vars

\* C20, witness: a render at one width has just computed the height of a
\* post while the cache holds, for another post of the list, a height
\* computed at another width and different from its height at this width
C20_HeightsOfTwoWidthsCached ==
    /\ last.op = "render"
    /\ last.arg.width = area.width
    /\ \E i, j \in 1..Len(current_view.posts), w \in ViewportWidths \ {area.width} :
          LET p == current_view.posts[i]
              q == current_view.posts[j]
          IN  /\ \E c \in 1..Len(last.arg.computed) : last.arg.computed[c] = q.uri
              /\ \A c \in 1..Len(last.arg.computed) : last.arg.computed[c] # p.uri
              /\ current_view.post_heights[p.uri] = computed_height(current_view, p, w)
              /\ current_view.post_heights[p.uri]
                    # computed_height(current_view, p, area.width)

(***************************************************************************)
(* The content specification: the same lists are loaded and rendered in a  *)
(* terminal of one size while posts are replaced by versions with another  *)
(* content.                                                                *)
(***************************************************************************)
\* View::update_post with a version of a post of the list whose image
\* presence differs
ListUpdateContent ==
    /\ ~panicked
    /\ \E k \in 1..Len(current_view.posts), body \in ScrollBodies :
          LET updated_post == [current_view.posts[k] EXCEPT !.body = body]
          IN  /\ body # current_view.posts[k].body
              /\ views' = SetCurrent(View_update_post(current_view, updated_post))
    /\ last' = ListHistory("update_post", NoArg)
    /\ UNCHANGED <<error, loading, panicked, overflow_checks, app_rest>>

NextContent ==
    \/ ListLoad
    \/ ListUpdateContent
    \/ ListRender

SpecContent == InitLists /\ [][NextContent]_vars

\* no uri is held twice by the list
UrisUnique(v) ==
    \A i, j \in 1..Len(v.posts) : v.posts[i].uri = v.posts[j].uri => i = j

\* C21: after a render, every post of a Timeline, a Thread or an AuthorFeed
\* that holds no uri twice has a cached height equal to the height of its
\* current content, also when update_post has replaced it by a version with
\* another content since its height was first computed.
C21_CachedHeightIsOfCurrentContent ==
    (/\ last.op = "render"
     /\ current_view.kind # "Notifications"
     /\ UrisUnique(current_view))
        => \A k \in 1..Len(current_view.posts) :
              current_view.post_heights[current_view.posts[k].uri]
                 = computed_height(current_view, current_view.posts[k], area.width)

(***************************************************************************)
(* Heights of posts by content: an author feed holding one post whose      *)
(* text, images, quote, quoted text and quoted images are drawn from       *)
(* every combination, rendered at each terminal width.                     *)
(***************************************************************************)
HeightTexts == {NoText, 30, 100}

HeightBodies ==
    { Body(text, img, quote, qtext, qimg) :
        text \in HeightTexts, img \in BOOLEAN, quote \in BOOLEAN,
        qtext \in HeightTexts, qimg \in BOOLEAN }

InitHeightOf ==
    /\ hidden = {}
    /\ deleted = {}
    /\ area \in Terminals
    /\ \E body \in HeightBodies :
          views = <<NewList("Timeline"),
                    AuthorFeed_new(1, <<PostOf(1, body, NoUri, NoUri, 0)>>)>>
    /\ error = "none"
    /\ loading = FALSE
    /\ panicked = FALSE
    /\ overflow_checks \in BOOLEAN
    /\ last = NoHistory
    /\ pc = "input"
    /\ post_updates = <<>>
    /\ command_mode = FALSE
    /\ composing = FALSE
    /\ post_composer = "None"
    /\ result = "none"
    /\ BackgroundIdle
    /\ status_line = StatusText("")

NextHeightOf == ListRender \/ Resize

SpecHeightOf == InitHeightOf /\ [][NextHeightOf]_vars

\* rows of a text wrapped into a block `margin` columns narrower than `width`
RowsOfText(text, width, margin) ==
    IF text = NoText THEN 0
    ELSE wrapped_lines(text, IF width > margin THEN width - margin ELSE 1)

\* C22: the height computed for a post is 4 + text rows, + 15 when the post
\* has images, + (4 + quoted text rows, + 15 when the quoted post has images)
\* when the post quotes another, for every combination of the three
C22_HeightIsSumOfParts ==
    (last.op = "render" /\ current_view.kind = "AuthorFeed")
        => \A k \in 1..Len(current_view.posts) :
              LET post == current_view.posts[k]
                  b == post.body
              IN  post.uri \in { last.arg.computed[i] : i \in 1..Len(last.arg.computed) }
                  => current_view.post_heights[post.uri]
                        = 4 + RowsOfText(b.text, last.arg.width, 4)
                            + (IF b.img THEN ImageAreaHeight ELSE 0)
                            + (IF b.quote
                               THEN 4 + RowsOfText(b.qtext, last.arg.width, 6)
                                    + (IF b.qimg THEN ImageAreaHeight ELSE 0)
                               ELSE 0)

\* C23: whenever the item set of a Thread has changed (posts added at
\* construction or by a refresh, a post removed), the relationships that the
\* next render and update_post read are present and are the relationships
\* derived from the current item set
C23_RelationshipsPresentAndCurrent ==
    (current_view.kind = "Thread" /\ last.op \in {"new", "refresh", "remove_post"})
        => /\ current_view.cached_relationships.present
           /\ current_view.cached_relationships = compute_relationships(current_view)

(***************************************************************************)
(* Follow-up tasks and the post-update channel.  spawn_get_post_task       *)
(* spawns a task that sleeps, fetches the post and sends it on a channel   *)
(* of ChannelCapacity slots; a send waits while the channel is full.  The  *)
(* event loop receives with try_recv until the channel is empty and then   *)
(* draws.                                                                  *)
(***************************************************************************)
\* mpsc::channel(10)
ChannelCapacity == 10
\* follow-up tasks alive at once, with the posts they have sent
MaxFollowUps == 11

follow_ups == BagCardinality(tasks.sleeping) + BagCardinality(tasks.sending)
                 + Len(post_updates)

\* `while let Ok(updated_post) = try_recv()`: the loop ends on an empty channel
drain_ends_once(channel) == TRUE
drain_ends(channel) == channel = <<>>

\* 'l': handle_like_post, which ends by spawning the follow-up task
LikePost ==
    /\ Visual
    /\ LET post == get_selected_post(current_view)
       IN  IF post.uri # NoUri
           THEN /\ follow_ups < MaxFollowUps
                /\ tasks' = [tasks EXCEPT !.sleeping =
                                @ (+) SetToBag({[post EXCEPT !.likes = 1 - @]})]
           ELSE UNCHANGED tasks
    /\ pc' = "draw"
    /\ last' = AppHistory("like", 0)
    /\ UNCHANGED <<views, error, loading, panicked, overflow_checks, post_updates,
                   command_mode, composing, post_composer, area, hidden, deleted, result, update_manager, image_manager>>
    /\ StatusAfterInput

\* the task, after its sleep: api.get_post gives the post or fails
GetPostTask_fetch ==
    /\ \E post \in BagToSet(tasks.sleeping), outcome \in Outcomes :
          tasks' = [tasks EXCEPT
                      !.sleeping = @ (-) SetToBag({post}),
                      !.sending = IF outcome = "ok" THEN @ (+) SetToBag({post})
                                  ELSE @]
    /\ UNCHANGED <<views, error, loading, panicked, overflow_checks, last, pc,
                   post_updates, command_mode, composing, post_composer, area, hidden, deleted,
                   result, status_line, update_manager, image_manager>>

\* the task: sender.send(updated_post).await, which waits for a free slot
GetPostTask_send ==
    /\ Len(post_updates) < ChannelCapacity
    /\ \E post \in BagToSet(tasks.sending) :
          /\ tasks' = [tasks EXCEPT !.sending = @ (-) SetToBag({post})]
          /\ post_updates' = Append(post_updates, post)
    /\ UNCHANGED <<views, error, loading, panicked, overflow_checks, last, pc,
                   command_mode, composing, post_composer, area, hidden, deleted, result,
                   status_line, update_manager, image_manager>>

\* event_loop: try_recv gives Err on the empty channel and terminal.draw
\* follows
DrawDrained ==
    /\ drain_ends(post_updates)
    /\ Draw

NextChannel ==
    \/ LikePost
    \/ GetPostTask_fetch
    \/ GetPostTask_send
    \/ UpdatePost
    \/ DrawDrained
    \/ Tick

\* a Thread is on top and a debug build runs
InitChannel ==
    /\ InitLists
    /\ current_view.kind = "Thread"
    /\ overflow_checks

SpecChannel == InitChannel /\ [][NextChannel]_vars

\* C24: in every iteration of the event loop the draw follows a try_recv that
\* found the channel empty, each post received is applied to the current
\* view, the loop can always take its next step whatever the tasks do, and
\* the drain leaves room for a task waiting to send on a full channel
C24_DrainBeforeDraw ==
    /\ [][(pc = "draw" /\ pc' = "input") => post_updates = <<>>]_vars
    /\ [][(post_updates # <<>> /\ post_updates' = Tail(post_updates))
            => views' = SetCurrent(View_update_post(current_view, Head(post_updates)))]_vars
    /\ [][(Len(post_updates) = ChannelCapacity /\ Len(post_updates') < ChannelCapacity)
            => /\ pc = "draw"
               /\ tasks' = tasks
               /\ (tasks.sending # EmptyBag => ENABLED GetPostTask_send)']_vars
    /\ []((~panicked /\ pc \in {"draw", "input"})
            => ENABLED (UpdatePost \/ DrawDrained \/ Tick))

\* C24 witness: a post has just been received from the full channel while a
\* task was waiting to send
C24_BlockedTaskUnblocked ==
    /\ last.op = "update_post"
    /\ Len(post_updates) = ChannelCapacity - 1
    /\ tasks.sending # EmptyBag

(***************************************************************************)
(* The live-update listener.  UpdateManager::start spawns a task that      *)
(* loops: run_subscription, send Disconnected, sleep, send Reconnecting.   *)
(* The task stands at one of its await points:                             *)
(*   "connecting"    connect_async, then the send of Connected             *)
(*   "subscribed"    read.next()                                           *)
(*   "closed"        run_subscription has returned; the send of            *)
(*                   Disconnected                                          *)
(*   "sleeping"      tokio::time::sleep(reconnect_interval)                *)
(*   "reconnecting"  the send of Reconnecting                              *)
(* "aborted" after task.abort(), "finished" had the loop been left.        *)
(***************************************************************************)
\* slots of the update channel that the listener can fill
\* (mpsc::channel(100) in UpdateManager::new)
UpdateChannelSlots == 2

ListenerEnded == {"aborted", "finished"}

emit(event) == [update_manager EXCEPT !.events = Append(@, event)]
has_room == Len(update_manager.events) < UpdateChannelSlots

\* what the task does after run_subscription has returned
after_subscription_exits == "finished"
after_subscription == "closed"

\* UpdateManager::start, called once by App::run
UpdateManager_start ==
    /\ update_manager.task = "unspawned"
    /\ update_manager' = [update_manager EXCEPT !.ws_task = "Some",
                                                 !.task = "connecting"]
    /\ UNCHANGED <<views, error, loading, panicked, overflow_checks, last, pc,
                   post_updates, command_mode, composing, post_composer, area, hidden, deleted,
                   result, status_line, tasks, image_manager>>

\* run_subscription: connect_async fails (Err), or succeeds and Connected
\* is sent
Listener_connect ==
    /\ update_manager.task = "connecting"
    /\ \E outcome \in Outcomes :
          IF outcome = "ok"
          THEN /\ has_room
               /\ update_manager' = [emit("Connected") EXCEPT !.task = "subscribed"]
          ELSE update_manager' = [update_manager EXCEPT !.task = after_subscription]
    /\ UNCHANGED <<views, error, loading, panicked, overflow_checks, last, pc,
                   post_updates, command_mode, composing, post_composer, area, hidden, deleted,
                   result, status_line, tasks, image_manager>>

\* run_subscription: a message that parses to a Notification is sent
Listener_message ==
    /\ update_manager.task = "subscribed"
    /\ has_room
    /\ update_manager' = emit("Notification")
    /\ UNCHANGED <<views, error, loading, panicked, overflow_checks, last, pc,
                   post_updates, command_mode, composing, post_composer, area, hidden, deleted,
                   result, status_line, tasks, image_manager>>

\* run_subscription: the stream ends, the server closes, or an error is read
Listener_end ==
    /\ update_manager.task = "subscribed"
    /\ update_manager' = [update_manager EXCEPT !.task = after_subscription]
    /\ UNCHANGED <<views, error, loading, panicked, overflow_checks, last, pc,
                   post_updates, command_mode, composing, post_composer, area, hidden, deleted,
                   result, status_line, tasks, image_manager>>

\* the task's loop: send Disconnected, sleep, send Reconnecting, loop
Listener_loop ==
    /\ \/ /\ update_manager.task = "closed"
          /\ has_room
          /\ update_manager' = [emit("Disconnected") EXCEPT !.task = "sleeping"]
       \/ /\ update_manager.task = "sleeping"
          /\ update_manager' = [update_manager EXCEPT !.task = "reconnecting"]
       \/ /\ update_manager.task = "reconnecting"
          /\ has_room
          /\ update_manager' = [emit("Reconnecting") EXCEPT !.task = "connecting"]
    /\ UNCHANGED <<views, error, loading, panicked, overflow_checks, last, pc,
                   post_updates, command_mode, composing, post_composer, area, hidden, deleted,
                   result, status_line, tasks, image_manager>>

\* UpdateManager::stop
UpdateManager_stop ==
    /\ update_manager.ws_task = "Some"
    /\ update_manager' = [update_manager EXCEPT !.ws_task = "None", !.task = "aborted"]
    /\ UNCHANGED <<views, error, loading, panicked, overflow_checks, last, pc,
                   post_updates, command_mode, composing, post_composer, area, hidden, deleted,
                   result, status_line, tasks, image_manager>>

\* Drop for UpdateManager: App is dropped once event_loop has returned or
\* a panic unwinds
UpdateManager_drop ==
    /\ pc = "returned" \/ panicked
    /\ UpdateManager_stop

\* event_loop: update_manager.try_recv gives an event
ReceiveEvent ==
    /\ pc = "draw"
    /\ ~panicked
    /\ update_manager.events # <<>>
    /\ update_manager' = [update_manager EXCEPT !.events = Tail(@)]
    /\ IF Head(update_manager.events) = "Notification"
          /\ current_view.kind = "Notifications"
       THEN \E outcome \in Outcomes :
               /\ IF outcome = "ok"
                  THEN /\ \E new_uri \in LatestNotifications :
                             views' = SetCurrent(handle_new_notification(current_view, new_uri))
                       /\ UNCHANGED <<pc, result>>
                  ELSE /\ pc' = "returned"
                       /\ result' = "Err"
                       /\ UNCHANGED views
               /\ last' = AppHistory("new_notification", outcome)
       ELSE UNCHANGED <<views, pc, result, last>>
    /\ UNCHANGED <<error, loading, panicked, overflow_checks, post_updates,
                   command_mode, composing, post_composer, area, hidden, deleted, status_line, tasks, image_manager>>

NextListener ==
    \/ UpdateManager_start
    \/ Listener_connect
    \/ Listener_message
    \/ Listener_end
    \/ Listener_loop
    \/ UpdateManager_stop
    \/ UpdateManager_drop
    \/ ReceiveEvent
    \/ Draw
    \/ Tick

\* the runtime schedules the task whenever it can run, and the event loop
\* reaches its drain in every iteration
SpecListener ==
    /\ InitLists
    /\ [][NextListener]_vars
    /\ WF_vars(Listener_connect)
    /\ WF_vars(Listener_loop)
    /\ WF_vars(UpdateManager_drop)
    /\ SF_vars(ReceiveEvent)
    /\ WF_vars(Draw)
    /\ WF_vars(Tick)


\* the step aborts the task through the manager's handle
Aborted ==
    /\ update_manager.ws_task = "Some"
    /\ update_manager'.ws_task = "None"
    /\ update_manager'.task = "aborted"

\* the step leaves the task where it stands, moves it to `to`, or aborts it
Moved(to) == update_manager'.task \in {update_manager.task, to} \/ Aborted

\* a step of the task that moves it sends `event`
Sent(event) ==
    (update_manager'.task \notin {update_manager.task, "aborted"})
        => update_manager'.events = Append(update_manager.events, event)

\* C25: when the subscription ends and the manager has not been stopped, the
\* listener sends Disconnected, sleeps, sends Reconnecting and connects
\* again, in that order; it never leaves its loop, and only stop() or the
\* drop of the manager ends it
C25_ListenerReconnects ==
    /\ [][update_manager.task = "subscribed" => Moved("closed")]_vars
    /\ [][update_manager.task = "connecting" =>
             \/ Moved("closed")
             \/ update_manager'.task = "subscribed" /\ Sent("Connected")]_vars
    /\ [][update_manager.task = "closed" => Moved("sleeping") /\ Sent("Disconnected")]_vars
    /\ [][update_manager.task = "sleeping" =>
             /\ Moved("reconnecting")
             /\ Len(update_manager'.events) <= Len(update_manager.events)]_vars
    /\ [][update_manager.task = "reconnecting" =>
             Moved("connecting") /\ Sent("Reconnecting")]_vars
    /\ [][(update_manager'.task \in ListenerEnded
             /\ update_manager.task \notin ListenerEnded) => Aborted]_vars
    /\ (update_manager.task = "closed")
          ~> (update_manager.task \in {"connecting", "aborted"})

\* C25 witness: the listener is connecting again, Reconnecting being the
\* last event it sent
C25_ConnectingAgain ==
    /\ update_manager.task = "connecting"
    /\ update_manager.events # <<>>
    /\ update_manager.events[Len(update_manager.events)] = "Reconnecting"

(***************************************************************************)
(* The image caches.  Three LruCaches behind RwLocks: raw bytes by url,    *)
(* decoded images by url, sixels by url and area.  PostImage::new spawns   *)
(* a task that runs get_decoded_image (and get_image inside it); a render  *)
(* calls get_or_create_sixel, which spawns a task that encodes the sixel.  *)
(* A task stands at `at`:                                                  *)
(*   "d_wait" "r_wait" "r_put_wait" "d_put_wait"  write().await            *)
(*   "d_get" "r_get" "r_put" "d_put" "again_put" "s_put"  the lock is held *)
(*   "downloading"  client.get(url).send() and response.bytes()            *)
(*   "decoding"     load_from_memory                                       *)
(*   "again"        the task's own try_write after get_decoded_image       *)
(*   "encoding"     picker.new_protocol                                    *)
(***************************************************************************)
\* distinct image urls
MaxImages == 3
\* entries a cache holds (LruCache::new(200), (100) and (50) in the code)
RawCacheSlots == 2
DecodedCacheSlots == 2
SixelCacheSlots == 1

ImageUrls == 1..MaxImages

Without(cache, key) == SelectSeq(cache, LAMBDA k : k # key)
Holds(cache, key) == \E i \in 1..Len(cache) : cache[i] = key

\* LruCache::get: a hit makes the key the most recently used
LruCache_get(cache, key) ==
    IF Holds(cache, key) THEN Append(Without(cache, key), key) ELSE cache

\* LruCache::peek (behind contains()): the order is left as it is
LruCache_peek(cache, key) == cache

\* LruCache::put: a key already held is replaced and becomes the most
\* recently used; a new key on a full cache drops the least recently used
LruCache_put_keeping(cache, key, cap) == Append(Without(cache, key), key)
LruCache_put(cache, key, cap) ==
    IF Holds(cache, key) THEN Append(Without(cache, key), key)
    ELSE IF Len(cache) >= cap THEN Append(Tail(cache), key)
    ELSE Append(cache, key)

\* get_image: `cache` is declared in a block that ends before the download
guard_after_block_kept(id) == id
guard_after_block(id) == 0

SixelCacheKey(url) == <<url, area.width, area.height>>

job(id) == image_manager.jobs[id]
idle_jobs == {id \in 1..MaxImageTasks : job(id).at = "idle"}
spawn(im, url, at) ==
    LET id == CHOOSE i \in idle_jobs : \A j \in idle_jobs : i <= j
    IN  [im EXCEPT !.jobs[id] = [url |-> url, at |-> at]]

not_images == <<views, error, loading, panicked, overflow_checks, last, pc,
                post_updates, command_mode, composing, post_composer, area, hidden, deleted,
                result, status_line, tasks, update_manager>>

\* PostImage::new: a try_write look into the decoded cache, and the task
\* spawned when nothing was found
PostImage_new ==
    /\ \E url \in ImageUrls :
          IF image_manager.holder.decoded = 0 /\ Holds(image_manager.decoded, url)
          THEN image_manager' = [image_manager EXCEPT
                                   !.decoded = LruCache_get(@, url)]
          ELSE /\ idle_jobs # {}
               /\ image_manager' = spawn(image_manager, url, "d_wait")
    /\ UNCHANGED not_images

\* ImageManager::get_decoded_image, one await point or guarded block a step
get_decoded_image ==
    /\ \E id \in 1..MaxImageTasks :
          LET url == job(id).url
              at == job(id).at
          IN  \/ /\ at \in {"d_wait", "d_put_wait"}
                 /\ image_manager.holder.decoded = 0
                 /\ image_manager' = [image_manager EXCEPT
                        !.holder.decoded = id,
                        !.jobs[id].at = IF at = "d_wait" THEN "d_get" ELSE "d_put"]
              \/ /\ at = "d_get"
                 /\ image_manager' = [image_manager EXCEPT
                        !.decoded = LruCache_get(@, url),
                        !.holder.decoded = 0,
                        !.jobs[id].at = IF Holds(image_manager.decoded, url)
                                        THEN "again" ELSE "r_wait"]
              \/ /\ at = "decoding"
                 /\ \E outcome \in Outcomes :
                       image_manager' = [image_manager EXCEPT
                          !.jobs[id] = IF outcome = "ok"
                                       THEN [@ EXCEPT !.at = "d_put_wait"]
                                       ELSE [url |-> 0, at |-> "idle"]]
              \/ /\ at = "d_put"
                 /\ image_manager' = [image_manager EXCEPT
                        !.decoded = LruCache_put(@, url, DecodedCacheSlots),
                        !.holder.decoded = 0,
                        !.jobs[id].at = "again"]
    /\ UNCHANGED not_images

\* ImageManager::get_image, one await point or guarded block a step
get_image ==
    /\ \E id \in 1..MaxImageTasks :
          LET url == job(id).url
              at == job(id).at
          IN  \/ /\ at \in {"r_wait", "r_put_wait"}
                 /\ image_manager.holder.raw = 0
                 /\ image_manager' = [image_manager EXCEPT
                        !.holder.raw = id,
                        !.jobs[id].at = IF at = "r_wait" THEN "r_get" ELSE "r_put"]
              \/ /\ at = "r_get"
                 /\ image_manager' = [image_manager EXCEPT
                        !.raw = LruCache_get(@, url),
                        !.holder.raw = IF Holds(image_manager.raw, url) THEN 0
                                       ELSE guard_after_block(id),
                        !.jobs[id].at = IF Holds(image_manager.raw, url)
                                        THEN "decoding" ELSE "downloading"]
              \/ /\ at = "downloading"
                 /\ \E outcome \in Outcomes :
                       image_manager' = [image_manager EXCEPT
                          !.jobs[id] = IF outcome = "ok"
                                       THEN [@ EXCEPT !.at = "r_put_wait"]
                                       ELSE [url |-> 0, at |-> "idle"]]
              \/ /\ at = "r_put"
                 /\ LET put == LruCache_put(image_manager.raw, url, RawCacheSlots)
                        dropped == {k \in ImageUrls : Holds(image_manager.raw, k)
                                                       /\ ~Holds(put, k)}
                    IN  image_manager' = [image_manager EXCEPT
                           !.raw = put,
                           !.evicted = (@ \cup dropped) \ {url},
                           !.holder.raw = 0,
                           !.jobs[id].at = "decoding"]
    /\ UNCHANGED not_images

\* the task of PostImage::new after get_decoded_image: a try_write insert
PostImage_insert ==
    /\ \E id \in 1..MaxImageTasks :
          \/ /\ job(id).at = "again"
             /\ image_manager' =
                   IF image_manager.holder.decoded = 0
                   THEN [image_manager EXCEPT !.holder.decoded = id,
                                              !.jobs[id].at = "again_put"]
                   ELSE [image_manager EXCEPT !.jobs[id] = [url |-> 0, at |-> "idle"]]
          \/ /\ job(id).at = "again_put"
             /\ image_manager' = [image_manager EXCEPT
                    !.decoded = LruCache_put(@, job(id).url, DecodedCacheSlots),
                    !.holder.decoded = 0,
                    !.jobs[id] = [url |-> 0, at |-> "idle"]]
    /\ UNCHANGED not_images

\* ImageManager::get_or_create_sixel, called by a render: try_write on the
\* sixel cache, then on the decoded cache, and the encoding task spawned
get_or_create_sixel ==
    /\ \E url \in ImageUrls :
          IF image_manager.holder.sixel = 0
             /\ Holds(image_manager.sixel, SixelCacheKey(url))
          THEN image_manager' = [image_manager EXCEPT
                                   !.sixel = LruCache_get(@, SixelCacheKey(url))]
          ELSE IF image_manager.holder.decoded = 0
                  /\ Holds(image_manager.decoded, url)
          THEN /\ idle_jobs # {}
               /\ image_manager' = spawn([image_manager EXCEPT
                                            !.decoded = LruCache_get(@, url)],
                                         url, "encoding")
          ELSE UNCHANGED image_manager
    /\ UNCHANGED not_images

\* the encoding task: new_protocol, then a try_write insert
Sixel_task ==
    /\ \E id \in 1..MaxImageTasks :
          \/ /\ job(id).at = "encoding"
             /\ \E outcome \in Outcomes :
                   image_manager' =
                      IF outcome = "ok" /\ image_manager.holder.sixel = 0
                      THEN [image_manager EXCEPT !.holder.sixel = id,
                                                 !.jobs[id].at = "s_put"]
                      ELSE [image_manager EXCEPT !.jobs[id] = [url |-> 0, at |-> "idle"]]
          \/ /\ job(id).at = "s_put"
             /\ image_manager' = [image_manager EXCEPT
                    !.sixel = LruCache_put(@, SixelCacheKey(job(id).url), SixelCacheSlots),
                    !.holder.sixel = 0,
                    !.jobs[id] = [url |-> 0, at |-> "idle"]]
    /\ UNCHANGED not_images

NextImages ==
    \/ PostImage_new
    \/ get_decoded_image
    \/ get_image
    \/ PostImage_insert
    \/ get_or_create_sixel
    \/ Sixel_task

SpecImages == InitChannel /\ [][NextImages]_vars


\* the key that a step has inserted into a cache that did not hold it
Inserted(before, after) ==
    {k \in {after[i] : i \in 1..Len(after)} : ~Holds(before, k)}

\* a step on a cache either keeps its keys, or inserts a key it did not hold:
\* into a cache with room, keeping every key, or into a full cache, dropping
\* exactly the least recently used key
EvictsLeastRecentlyUsed(before, after, cap) ==
    Inserted(before, after) # {}
        => \E k \in Inserted(before, after) :
              after = Append(IF Len(before) >= cap THEN Tail(before) ELSE before, k)

\* C26: under every interleaving of the image tasks no cache holds more
\* entries than its capacity; an insert of a new key into a full cache
\* drops the least recently used entry, a get having made its key the most
\* recently used; and get_image for a url that the raw cache does not hold
\* (any more) downloads it
C26_CachesBoundedAndLru ==
    /\ [](/\ Len(image_manager.raw) <= RawCacheSlots
          /\ Len(image_manager.decoded) <= DecodedCacheSlots
          /\ Len(image_manager.sixel) <= SixelCacheSlots)
    /\ [][/\ EvictsLeastRecentlyUsed(image_manager.raw, image_manager'.raw,
                                      RawCacheSlots)
          /\ EvictsLeastRecentlyUsed(image_manager.decoded, image_manager'.decoded,
                                      DecodedCacheSlots)
          /\ EvictsLeastRecentlyUsed(image_manager.sixel, image_manager'.sixel,
                                      SixelCacheSlots)]_vars
    /\ [][\A id \in 1..MaxImageTasks :
            (job(id).at = "r_get" /\ image_manager'.jobs[id].at # "r_get")
               => IF Holds(image_manager.raw, job(id).url)
                  THEN /\ image_manager'.jobs[id].at = "decoding"
                       /\ image_manager'.raw
                             = Append(Without(image_manager.raw, job(id).url), job(id).url)
                  ELSE image_manager'.jobs[id].at = "downloading"]_vars

\* C26 witness: a url that the full raw cache had dropped is downloaded again
C26_EvictedUrlDownloadedAgain ==
    \E id \in 1..MaxImageTasks :
        /\ job(id).at = "downloading"
        /\ job(id).url \in image_manager.evicted
        /\ Len(image_manager.raw) = RawCacheSlots

Locks == {"raw", "decoded", "sixel"}

\* C27: no task holds the lock of an image cache while it downloads, decodes
\* or encodes, and a render (get_or_create_sixel, PostImage::new) can take
\* its step whichever locks the tasks hold
C27_NoLockHeldAcrossDownload ==
    /\ \A id \in 1..MaxImageTasks :
          job(id).at \in {"downloading", "decoding", "encoding"}
             => \A l \in Locks : image_manager.holder[l] # id
    /\ ENABLED get_or_create_sixel
    /\ (idle_jobs # {} => ENABLED PostImage_new)

\* C27 witness: one task downloads while another holds the lock of the raw
\* cache
C27_DownloadBesideLockHolder ==
    \E id, other \in 1..MaxImageTasks :
        /\ job(id).at = "downloading"
        /\ image_manager.holder.raw = other
        /\ other # 0

\* NotificationView's render: Block::inner of a block with Borders::ALL
inner_height(height) == saturating_sub(height, 2)

\* C28: after every scroll_down in the Notifications view, at every terminal
\* height that has room for one notification, the selected notification is
\* drawn with all its rows inside the bordered inner area
C28_SelectedNotificationInside ==
    (/\ current_view.kind = "Notifications"
     /\ last.op = "scroll_down"
     /\ ~panicked
     /\ inner_height(current_view.last_known_height) >= DefaultNotificationHeight)
        => /\ current_view.scroll_offset <= current_view.selected_index
           /\ RowsThroughSelection(current_view)
                 <= inner_height(current_view.last_known_height)


\* C29: scroll_up at selected_index 0 changes nothing; otherwise it takes
\* one from selected_index and sets scroll_offset to the smaller of its old
\* value and the new selected_index; Timeline, Thread, AuthorFeed and
\* Notifications all do exactly this
C29_ScrollUpIsTheSameEverywhere ==
    [][last'.op = "scroll_up" =>
         views' = SetCurrent(
            IF current_view.selected_index = 0 THEN current_view
            ELSE [current_view EXCEPT
                    !.selected_index = @ - 1,
                    !.scroll_offset = Min(@, current_view.selected_index - 1)])]_vars

\* C29 witness: scroll_up has run on an author feed whose first post was
\* selected with the list scrolled
C29_AuthorFeedBackToProfile ==
    /\ last.op = "scroll_up"
    /\ current_view.kind = "AuthorFeed"
    /\ last.sel = 1
    /\ last.off > 0

\* C30: whenever a 'j' on the Timeline leaves needs_more_content() true, the
\* handler issues one fetch of the page at the feed's cursor before it
\* returns: on success that page is appended and the cursor replaced by the
\* one returned, on failure the feed is as scroll_down left it
C30_OneFetchPerScroll ==
    [][(/\ Visual
        /\ current_view.kind = "Timeline"
        /\ last'.op \in {"key_j", "scroll"})
          => LET r == View_scroll_down(current_view, overflow_checks)
                 after == views'[Len(views')]
             IN  (~r.panic /\ Feed_needs_more_content(r.view))
                    => /\ last'.op = "scroll"
                       /\ last'.arg.view = r.view
                       /\ pc' = "draw"
                       /\ IF last'.arg.outcome = "ok"
                          THEN /\ after.posts = r.view.posts \o TimelinePage(r.view.cursor)
                               /\ after.cursor = NextCursor(r.view.cursor)
                               /\ after.selected_index = r.view.selected_index
                          ELSE after = r.view]_vars

\* C30 witness: a 'j' has fetched a page past the first and appended it
C30_PageAppended ==
    /\ last.op = "scroll"
    /\ last.arg.outcome = "ok"
    /\ last.arg.view.cursor # 0
    /\ Len(current_view.posts) > Len(last.arg.view.posts)

(***************************************************************************)
(* Properties of the identity of the items of the Timeline.                *)
(***************************************************************************)
\* C31: after any sequence of initial load, pagination (also when the
\* server has returned no next cursor) and reload after a composed post,
\* the Timeline holds no two items with the same uri.
C31_TimelineHoldsNoUriTwice ==
    \A i \in 1..Len(views) : views[i].kind = "Timeline" => UrisUnique(views[i])

(***************************************************************************)
(* The components specification: the same lists are loaded, paginated and  *)
(* refreshed, and their posts are updated and removed, while the blocked   *)
(* replies come back.                                                      *)
(***************************************************************************)
NextComponents ==
    \/ ListLoad
    \/ ListPaginate
    \/ ListRefresh
    \/ ListUpdate
    \/ ListRemove
    \/ Unblock

SpecComponents == InitLists /\ [][NextComponents]_vars

\* the index View::update_post and View::remove_post use for the uri is an
\* index of rendered_posts
IndexInRendered(v, uri) ==
    position(v.posts, uri) >= 0 => position(v.posts, uri) + 1 \in DOMAIN v.rendered_posts

NextStack == NextApp \/ Command_refresh

SpecStack == InitApp /\ [][NextStack]_vars

\* the items and the cursor of two views are the same
SameListAndCursor(v, w) ==
    /\ v.kind = w.kind
    /\ v.posts = w.posts
    /\ v.selected_index = w.selected_index
    /\ v.scroll_offset = w.scroll_offset

\* the step leaves the view at index i as it was
Untouched(i) == SameListAndCursor(views'[i], views[i])

\* C33: pushing a view and later popping it leaves every view below it
\* unchanged.  No step changes the items, the selected index or the scroll
\* offset of a view below the top; a push leaves the view it covers as it
\* was, and a pop only takes views off the top: so each view below a pushed
\* view is, when that view is popped, as it was right before the push.
C33_ViewsBelowTopUntouched ==
    [][\A i \in 1..Len(views) :
          /\ (i < Len(views) /\ i <= Len(views')) => Untouched(i)
          /\ (i = Len(views) /\ Len(views') > Len(views)) => Untouched(i)]_vars

\* a view has been popped off a Timeline that was scrolled before the push
C33_PoppedBackToScrolledView ==
    /\ last.op = "pop_view"
    /\ last.depth = 2
    /\ Len(views) = 1
    /\ current_view.selected_index > 0
    /\ current_view.scroll_offset > 0

(***************************************************************************)
(* The drain specification: posts are liked in one view and their updates  *)
(* are received while that view or another one is on top of the stack.     *)
(***************************************************************************)
NextDrain ==
    \/ Run \/ UpdatePost \/ Draw \/ Tick
    \/ Key_j \/ Key_l \/ Key_v \/ Key_n \/ Key_Esc

SpecDrain == InitApp /\ [][NextDrain]_vars

\* the step receives a post update from the channel
Drained == post_updates # <<>> /\ Len(post_updates') < Len(post_updates)

\* the state of the lists and of the application outside the channel
app_but_channel == <<views, error, loading, panicked, command_mode, composing, post_composer, status_line>>

\* C34: a post update received from the channel changes only the view that
\* is on top of the stack when it is received, and leaves the selected
\* index, the scroll offset and the number of items of that view as they
\* were; the views below are not changed; when the top view holds no item
\* with the uri of the update, or is the Notifications view, nothing
\* changes.
C34_UpdateTouchesOnlyTopItems ==
    [][Drained =>
         LET top == current_view
             uri == Head(post_updates).uri
         IN  /\ Len(views') = Len(views)
             /\ \A i \in 1..(Len(views) - 1) : views'[i] = views[i]
             /\ current_view_after.selected_index = top.selected_index
             /\ current_view_after.scroll_offset = top.scroll_offset
             /\ Len(current_view_after.posts) = Len(top.posts)
             /\ (top.kind = "Notifications" \/ position(top.posts, uri) < 0)
                   => UNCHANGED app_but_channel]_vars

\* the update of a post liked in the Timeline has been received by a Thread
\* that holds the post, above a Timeline that holds it too
C34_UpdateReceivedByThread ==
    /\ last.op = "update_post"
    /\ Len(views) = 2
    /\ current_view.kind = "Thread"
    /\ current_view.selected_index > 0
    /\ \E k \in 1..Len(current_view.posts) :
          /\ current_view.posts[k].likes > 0
          /\ position(views[1].posts, current_view.posts[k].uri) >= 0

\* the update of a post has been received by a view that does not hold it
C34_UpdateReceivedElsewhere ==
    /\ last.op = "update_post"
    /\ Len(views) = 2
    /\ (current_view.kind = "Notifications"
        \/ position(current_view.posts, last.arg.uri) < 0)

(***************************************************************************)
(* Properties of the like action and its follow-up.                        *)
(***************************************************************************)
\* handle_like_post: the call made for the post as the list holds it
like_call(post) == IF post.likes > 0 THEN "unlike_post" ELSE "like_post"

\* the posts of the follow-up tasks that have not been received yet: of the
\* tasks that sleep or send, and in the channel
PendingUpdates ==
    BagToSet(tasks.sleeping) \cup BagToSet(tasks.sending)
       \cup {post_updates[k] : k \in 1..Len(post_updates)}

\* the step is a like action on a post: a follow-up task is spawned
LikeAction == BagCardinality(tasks'.sleeping) > BagCardinality(tasks.sleeping)

\* C35: of two consecutive like actions on a selected post that is not
\* liked at first, the first calls like_post and the second unlike_post,
\* wherever the second action falls with respect to the delivery of the
\* follow-up of the first: a like action on a post for which the follow-up
\* of a like_post has not been received yet calls unlike_post.
C35_LikeThenUnlike ==
    [][LET post == get_selected_post(current_view)
       IN  (/\ LikeAction
            /\ \E q \in PendingUpdates : q.uri = post.uri /\ q.likes > 0)
              => like_call(post) = "unlike_post"]_vars

(***************************************************************************)
(* Properties of the flags of the application.                             *)
(***************************************************************************)
\* the step is a call of handle_input that returns
InputHandled == pc = "input" /\ pc' = "draw" /\ last' # last

\* C36: whenever handle_input returns, App.loading is false, whether the
\* fetch it made succeeded or failed, so that the status line does not show
\* "Loading..." afterwards.
C36_NotLoadingAfterInput ==
    [][InputHandled => (~loading' /\ status_line'.text # "Loading...")]_vars

\* C37: in every reachable state of the application, command_mode and
\* composing are never both true, and composing is true exactly when
\* post_composer is Some.
C37_ModesExclusiveAndComposerPresent ==
    /\ ~(command_mode /\ composing)
    /\ composing <=> post_composer = "Some"

\* the composer has been opened by ":reply" on the pushed thread of the post
C37_ComposingReply ==
    /\ composing
    /\ post_composer = "Some"
    /\ last.op = "push_thread_view"
    /\ last.arg = "ok"
    /\ current_view.kind = "Thread"

(***************************************************************************)
(* Properties of the live notifications.                                   *)
(***************************************************************************)
\* the step handles a Notification event of the update manager
NotificationEvent == pc = "draw" /\ last'.op = "new_notification"

\* the step puts a notification in front of the list
NotificationInserted ==
    /\ NotificationEvent
    /\ Len(current_view_after.posts) = Len(current_view.posts) + 1

\* C38: handle_new_notification never adds a notification whose uri is
\* already in the list: each live event grows the list by at most one
\* notification, put in front of the others; a list that held no uri twice
\* holds none twice afterwards; a failed fetch leaves the list as it was.
C38_NewNotificationAddedOnce ==
    [][NotificationEvent =>
         /\ Len(views') = Len(views)
         /\ IF NotificationInserted
            THEN /\ position(current_view.posts, current_view_after.posts[1].uri) < 0
                 /\ Tail(current_view_after.posts) = current_view.posts
            ELSE current_view_after.posts = current_view.posts
         /\ UrisUnique(current_view) => UrisUnique(current_view_after)
         /\ last'.arg = "failed" => views' = views]_vars

\* a live event has put a notification in front of a loaded list
C38_NotificationAdded ==
    /\ last.op = "new_notification"
    /\ last.arg = "ok"
    /\ current_view.kind = "Notifications"
    /\ Len(current_view.posts) = PageSize + 1
    /\ current_view.posts[1].uri = PageSize + 1

\* NotificationView::get_notification: the notification at selected_index
get_notification(v) == v.posts[v.selected_index + 1]

\* C39: when a live event inserts a new notification into the list, the
\* notification that was selected before the insertion is the selected one
\* afterwards.
C39_SelectionFollowsNotification ==
    [][(NotificationInserted /\ current_view.selected_index < Len(current_view.posts))
          => get_notification(current_view_after).uri = get_notification(current_view).uri]_vars

(***************************************************************************)
(* Properties of a Thread as Thread::new leaves it.                        *)
(***************************************************************************)
\* push_thread_view has just pushed a Thread made from a ThreadViewPost
ThreadConstructed ==
    /\ last.op = "push_thread_view"
    /\ last.arg = "ok"
    /\ Len(views) = last.depth + 1
    /\ current_view.kind = "Thread"
    /\ current_view.selected_uri # NoUri

====
